---- MODULE Spec2Model ----
(***************************************************************************)
(* Dataset lifecycle of the railway-opendata backend                       *)
(* (src/webapp/backend/main.py): the data directory with its current       *)
(* dataset, the _archive/<stamp> snapshots and the _default snapshot, and  *)
(* the handlers upload, revert (restore), apply-archive, delete-archive    *)
(* and clear-archives that change it.                                      *)
(*                                                                         *)
(* Representation of the file tree.  A directory entry that may be absent  *)
(* is a sequence: <<>> is "does not exist".                                *)
(*   - a file is <<[tag, mtime]>>: tag identifies the bytes (the upload    *)
(*     that produced them, 0 for the data present at start-up);            *)
(*   - a date folder YYYY-MM-DD is a non-empty sequence of layers          *)
(*     [tag, trains]: layer 1 is the folder itself (trains = it holds a    *)
(*     trains.csv), layer k+1 is a folder of the same name nested inside   *)
(*     layer k (shutil.move of a folder onto an existing folder moves it   *)
(*     INSIDE that folder);                                                *)
(*   - outputs/ is a sequence of layers [runtime, files] in the same way.  *)
(* A path is the sequence of its components; a leading "" component is a   *)
(* leading "/" and a trailing "" component a trailing "/".                 *)
(***************************************************************************)
EXTENDS Integers, Sequences, FiniteSets, TLC

\* ---------------------------------------------------------------- bounds
MaxClock == 1
MaxOps == 3

\* ------------------------------------------------------------- constants
DEFAULT_ARCHIVE_STAMP == "_default"
CURRENT_ARCHIVE_STAMP == "_current"

\* Folder names for which date.fromisoformat succeeds.
DateNames == {"2023-08-15", "2024-08-16", "2024-08-17"}

\* date.fromisoformat(name) as a day number, counted from 2023-08-15.
fromisoformat(name) ==
    CASE name = "2023-08-15" -> 0
      [] name = "2024-08-16" -> 367
      [] name = "2024-08-17" -> 368
      [] name = "20240101" -> 139

StationFileNames == {"stations.csv", "stations.clean.csv", "stations.geojson"}

\* datetime.utcnow().strftime("%Y%m%d_%H%M%S") for clock second t (t >= 0):
\* fixed width, so the order of the names is the order of the seconds.
StampStr == <<"20240101_000000", "20240101_000001", "20240101_000002",
              "20240101_000003", "20240101_000004", "20240101_000005">>

strftime(t) == StampStr[t + 1]

StampIndex(s) == CHOOSE i \in 1..Len(StampStr) : StampStr[i] = s

_is_date_dir_name(name) == name \in DateNames

\* --------------------------------------------------------- the file tree
NoDays == [d \in DateNames |-> <<>>]
NoStations == [f \in StationFileNames |-> <<>>]

\* An existing but empty directory.
EmptyDir == [days |-> NoDays, st |-> NoStations, meta |-> <<>>, outputs |-> <<>>]

FreshOutputs == <<[runtime |-> TRUE, files |-> {}]>>

\* RUNTIME_DIR.mkdir(parents=True, exist_ok=True) at import and in
\* _copy_dataset_into_webapp: creates outputs/ and outputs/runtime if missing.
MkRuntimeDir(outputs) ==
    IF outputs = <<>> THEN FreshOutputs
    ELSE [outputs EXCEPT ![1].runtime = TRUE]

\* The data shipped with the application (tag 0).
SeedDataset ==
    [days |-> [d \in DateNames |->
                 IF d = "2024-08-16" THEN <<[tag |-> 0, trains |-> TRUE]>> ELSE <<>>],
     st |-> [f \in StationFileNames |->
                 IF f = "stations.csv" THEN <<[tag |-> 0, mtime |-> 0]>> ELSE <<>>],
     meta |-> <<>>,
     outputs |-> <<>>]

_dataset_has_content(dir) ==
    /\ dir # <<>>
    /\ \/ \E f \in StationFileNames : dir[1].st[f] # <<>>
       \/ \E d \in DateNames : dir[1].days[d] # <<>>

\* ------------------------------------------------- upload payload parsing
Last(seq) == seq[Len(seq)]

IsPrefix(p, q) == Len(p) <= Len(q) /\ SubSeq(q, 1, Len(p)) = p

\* str.lower() and str.endswith() on the upload file names of the requests.
lower(name) ==
    CASE name = "UPLOAD.ZIP" -> "upload.zip"
      [] name = "STATIONS.CSV" -> "stations.csv"
      [] name = "Lombardia" -> "lombardia"
      [] name = "LOMBARDIA" -> "lombardia"
      [] name = "Piemonte" -> "piemonte"
      [] name = "Atlantide" -> "atlantide"
      [] name = "Torino" -> "torino"
      [] OTHER -> name

endswith(name, ext) ==
    CASE ext = ".zip" -> name \in {"upload.zip"}
      [] ext = ".csv" -> name \in {"stations.csv"}
      [] OTHER -> FALSE

\* _safe_relpath: drops the leading "/" and empty components, rejects "..".
\* Returns [err, rel].
_safe_relpath(path) ==
    LET parts == SelectSeq(path, LAMBDA c : c # "")
    IN  IF \E i \in 1..Len(parts) : parts[i] = ".."
        THEN [err |-> TRUE, rel |-> <<>>]
        ELSE [err |-> FALSE, rel |-> parts]

\* _write_upload_files: the loop over the uploaded files, entry i onwards, with
\* the set of files written so far.  Returns [err, files].
RECURSIVE WriteUploadLoop(_, _, _, _)
WriteUploadLoop(names, paths, i, written) ==
    IF i > Len(names) THEN [err |-> FALSE, files |-> written]
    ELSE LET raw == IF paths # <<>> THEN paths[i] ELSE names[i]
             r == _safe_relpath(raw)
         IN  IF r.err THEN [err |-> TRUE, files |-> written]
             ELSE IF r.rel = <<>> THEN WriteUploadLoop(names, paths, i + 1, written)
             ELSE WriteUploadLoop(names, paths, i + 1, written \cup {r.rel})

_write_upload_files(names, paths) ==
    IF paths # <<>> /\ Len(paths) # Len(names)
    THEN [err |-> TRUE, files |-> {}]
    ELSE WriteUploadLoop(names, paths, 1, {})

\* _safe_extract_zip: the loop over zf.infolist(), entry i onwards, with the
\* set of files extracted so far.  Returns [err, files].
RECURSIVE ExtractLoop(_, _, _)
ExtractLoop(entries, i, written) ==
    IF i > Len(entries) THEN [err |-> FALSE, files |-> written]
    ELSE LET name == entries[i]
         IN  IF name[1] = "" THEN [err |-> TRUE, files |-> written]
             ELSE IF (Len(name) > 1 /\ name[1] = "__MACOSX") \/ Last(name) = ".DS_Store"
                  THEN ExtractLoop(entries, i + 1, written)
             ELSE IF \E k \in 1..Len(name) : name[k] = ".."
                  THEN [err |-> TRUE, files |-> written]
             ELSE IF Last(name) = ""
                  THEN ExtractLoop(entries, i + 1, written)
             ELSE ExtractLoop(entries, i + 1, written \cup {name})

_safe_extract_zip(entries) == ExtractLoop(entries, 1, {})

\* The directories os.walk visits under the extraction root: the root and
\* every parent directory of an extracted file.
WalkDirs(files) ==
    {<<>>} \cup UNION {{SubSeq(f, 1, k) : k \in 0..(Len(f) - 1)} : f \in files}

\* _find_dataset_root: the candidates are the directories with a date-named
\* child holding trains.csv; the shallowest wins.  os.walk lists directories of
\* equal depth in the order of the file system, so the result is any candidate
\* of least depth.  The empty set stands for the 400 error.
_find_dataset_root(files) ==
    LET candidates == {p \in WalkDirs(files) : \E d \in DateNames : (p \o <<d, "trains.csv">>) \in files}
    IN  {p \in candidates : \A q \in candidates : Len(p) <= Len(q)}

\* The items of the dataset root that _copy_dataset_into_webapp installs:
\* the stations files and the date folders directly under root.
RootDays(files, root, tag) ==
    [d \in DateNames |->
        IF \E f \in files : IsPrefix(root \o <<d>>, f)
        THEN <<[tag |-> tag, trains |-> (root \o <<d, "trains.csv">>) \in files]>>
        ELSE <<>>]

RootStations(files, root, tag, mtime) ==
    [n \in StationFileNames |->
        IF (root \o <<n>>) \in files THEN <<[tag |-> tag, mtime |-> mtime]>> ELSE <<>>]

\* ------------------------------------------------------------- the state
VARIABLES
    now,            \* the second datetime.utcnow() returned when it was last read
    cur,            \* WEBAPP_DATA_DIR without _archive and _default
    archives,       \* _archive/<stamp>: stamp -> directory contents
    aroot,          \* whether the directory _archive exists
    dflt,           \* _default: <<>> or <<directory contents>>
    stationsCache,  \* _STATIONS_CACHE: [mtime, by_code], -1 for None
    nops,           \* number of requests handled so far
    last,           \* the last request: operation, argument, response, state before it
    prev,           \* the successful restore right before the last request, if any
    fnIn,           \* the arguments of a function called on its own
    fnOut,          \* what that call returned or raised
    resp,           \* the response of the aggregator called by the last request
    task            \* the background task _precompute_default_outputs: position and locals

vars == <<now, cur, archives, aroot, dflt, stationsCache, nops, last, prev, fnIn, fnOut, resp,
          task>>

\* The last request called no aggregator.
NoResponse == [kind |-> ""]

\* No background task is scheduled or running.
NoTask == [pc |-> "none"]

\* No function call on its own is under way.
NoCall == [fn |-> ""]
NoResult == [done |-> FALSE]

NoCache == [mtime |-> -1, by_code |-> -1]

\* ---------------------------------------------- _archive_existing_dataset
\* The names the loop over WEBAPP_DATA_DIR.iterdir() moves: date folders,
\* the three stations files and dataset.meta.json.
LoopItems(c) ==
    {d \in DateNames : c.days[d] # <<>>}
      \cup {f \in StationFileNames : c.st[f] # <<>>}
      \cup (IF c.meta # <<>> THEN {"dataset.meta.json"} ELSE {})

\* shutil.move(src, dst) of a directory: onto a missing dst it renames; onto an
\* existing directory dst it moves src to dst/<name of src>, and raises if that
\* exists already.
MoveRaises(dst) == Len(dst) >= 2

MoveDir(dst, src) == dst \o src

\* The data directory and the archive directory after the items in S moved.
MovedFrom(c, S) ==
    [days |-> [d \in DateNames |-> IF d \in S THEN <<>> ELSE c.days[d]],
     st |-> [f \in StationFileNames |-> IF f \in S THEN <<>> ELSE c.st[f]],
     meta |-> IF "dataset.meta.json" \in S THEN <<>> ELSE c.meta,
     outputs |-> c.outputs]

MovedInto(b, c, S) ==
    [days |-> [d \in DateNames |-> IF d \in S THEN MoveDir(b.days[d], c.days[d]) ELSE b.days[d]],
     st |-> [f \in StationFileNames |-> IF f \in S THEN c.st[f] ELSE b.st[f]],
     meta |-> IF "dataset.meta.json" \in S THEN c.meta ELSE b.meta,
     outputs |-> b.outputs]

\* archive_dir: the directory named by the clock second, created with
\* exist_ok=True, so an existing archive of the same second is written into.
ArchiveDirOf(arch, t) ==
    IF strftime(t) \in DOMAIN arch THEN arch[strftime(t)] ELSE EmptyDir

PutArchive(arch, stamp, dir) ==
    [s \in DOMAIN arch \cup {stamp} |-> IF s = stamp THEN dir ELSE arch[s]]

\* return archive_dir if moved else None ("" stands for None).
ArchiveResult(moved, stamp) == IF moved THEN stamp ELSE ""

\* The possible results of _archive_existing_dataset at clock second t:
\* [cur, archives, err, ret].  ret is the name of archive_dir, "" for None.
\* iterdir() yields the items in the order of the file system: when a move
\* raises, any set of the other items may have moved before it.
_archive_existing_dataset(c, arch, t) ==
    LET stamp == strftime(t)
        b == ArchiveDirOf(arch, t)
        items == LoopItems(c)
        raising == {d \in items \cap DateNames : MoveRaises(b.days[d])}
        c1 == MovedFrom(c, items)
        b1 == MovedInto(b, c, items)
    IN  IF raising # {}
        THEN {[cur |-> MovedFrom(c, S),
               archives |-> PutArchive(arch, stamp, MovedInto(b, c, S)),
               err |-> TRUE, ret |-> ""] : S \in SUBSET (items \ raising)}
        ELSE IF c.outputs = <<>>
        THEN {[cur |-> c1,
               archives |-> IF items = {} THEN arch ELSE PutArchive(arch, stamp, b1),
               err |-> FALSE,
               ret |-> ArchiveResult(items # {}, stamp)]}
        ELSE IF MoveRaises(b.outputs)
        THEN {[cur |-> c1,
               archives |-> PutArchive(arch, stamp, b1),
               err |-> TRUE, ret |-> ""]}
        ELSE {[cur |-> [c1 EXCEPT !.outputs = <<>>],
               archives |-> PutArchive(arch, stamp,
                               [b1 EXCEPT !.outputs = MoveDir(b.outputs, c.outputs)]),
               err |-> FALSE, ret |-> ArchiveResult(TRUE, stamp)]}

\* ------------------------------------------------- copying and clearing
\* _copy_dataset_contents(src, dest) into a directory dest without entries of
\* the copied names: stations files, date folders, outputs and the meta file.
\* CopyContentsWithoutOutputs is the variant that leaves outputs/ out.
CopyContentsWithoutOutputs(src) ==
    [days |-> src.days, st |-> src.st, meta |-> src.meta, outputs |-> <<>>]

_copy_dataset_contents(src) ==
    [days |-> src.days, st |-> src.st, meta |-> src.meta, outputs |-> src.outputs]

\* _clear_current_dataset: removes every entry except _archive and _default.
\* ClearNothing is the variant that removes nothing.
ClearNothing(c) == c

_clear_current_dataset(c) == EmptyDir

\* _ensure_default_dataset: the new value of _default.
_ensure_default_dataset(c, df) ==
    IF _dataset_has_content(df) THEN df
    ELSE IF ~_dataset_has_content(<<c>>) THEN df
    ELSE <<_copy_dataset_contents(c)>>

\* _list_archives: the stamps of the directories under _archive.
_list_archives(arch, ar) == IF ar THEN DOMAIN arch ELSE {}

\* sorted(..., key=name)[-1]
LatestStamp(stamps) ==
    CHOOSE s \in stamps : \A u \in stamps : StampIndex(u) <= StampIndex(s)

\* _copy_dataset_into_webapp: installs the root's stations files and date
\* folders, then creates outputs/ and outputs/runtime.
_copy_dataset_into_webapp(c, days, st) ==
    [days |-> [d \in DateNames |-> IF days[d] # <<>> THEN days[d] ELSE c.days[d]],
     st |-> [f \in StationFileNames |-> IF st[f] # <<>> THEN st[f] ELSE c.st[f]],
     meta |-> c.meta,
     outputs |-> MkRuntimeDir(c.outputs)]

\* copytree raises when the destination date folder exists.
CopyIntoRaises(c, days) == \E d \in DateNames : days[d] # <<>> /\ c.days[d] # <<>>

\* _write_dataset_meta: writes dataset.meta.json unless the name is empty.
\* created_at is utcnow() to the microsecond: the time mt of the write.
_write_dataset_meta(c, name, mt) ==
    IF name = "" THEN c
    ELSE [c EXCEPT !.meta = <<[name |-> name, created_at |-> mt]>>]

\* ------------------------------------------------------ upload requests
UploadFile(name, entries, tag) == <<[name |-> name, entries |-> entries, tag |-> tag]>>

NoFile == <<>>

UploadRequest(mode, file, files, paths, stations_file, zip_file, dataset_name, tag) ==
    [upload_mode |-> mode, file |-> file, files |-> files, paths |-> paths,
     stations_file |-> stations_file, zip_file |-> zip_file,
     dataset_name |-> dataset_name, tag |-> tag]

\* Zip archives, as the list of their entry names.
ZipOneDay == << <<"2024-08-16", "trains.csv">>, <<"stations.csv">> >>
ZipTwoDays == << <<"__MACOSX", "x">>, <<"data", "">>,
                 <<"data", "2024-08-16", "trains.csv">>,
                 <<"data", "2024-08-17", "notes.txt">> >>
ZipDotDot == << <<"2024-08-17", "trains.csv">>, <<"..", "..", "etc", "passwd">> >>
ZipAbsolute == << <<"", "etc", "passwd">>, <<"2024-08-17", "trains.csv">> >>
ZipNoDate == << <<"stations.csv">>, <<"2024-08-16", "notes.txt">> >>

FolderFiles == << <<"", "up", "2024-08-17", "trains.csv">>, <<"up", "stations.geojson">> >>
FolderDotDot == << <<"2024-08-17", "trains.csv">>, <<"..", "stations.csv">> >>

UploadRequests ==
    { UploadRequest("zip", UploadFile("upload.zip", ZipOneDay, 1), <<>>, <<>>, NoFile, NoFile, "n1", 1),
      UploadRequest("", UploadFile("UPLOAD.ZIP", ZipTwoDays, 2), <<>>, <<>>, NoFile, NoFile, "", 2),
      UploadRequest("zip", UploadFile("upload.zip", ZipDotDot, 3), <<>>, <<>>, NoFile, NoFile, "n3", 3),
      UploadRequest("zip", UploadFile("upload.zip", ZipAbsolute, 3), <<>>, <<>>, NoFile, NoFile, "", 3),
      UploadRequest("zip", UploadFile("upload.zip", ZipNoDate, 3), <<>>, <<>>, NoFile, NoFile, "", 3),
      UploadRequest("zip", UploadFile("upload.txt", ZipOneDay, 3), <<>>, <<>>, NoFile, NoFile, "", 3),
      UploadRequest("zip", NoFile, <<>>, <<>>, NoFile, NoFile, "", 3),
      UploadRequest("", NoFile, << <<"a">>, <<"b">> >>, FolderFiles, NoFile, NoFile, "n4", 4),
      UploadRequest("folder", NoFile, FolderDotDot, <<>>, NoFile, NoFile, "", 4),
      UploadRequest("folder", NoFile, << <<"a">> >>, FolderFiles, NoFile, NoFile, "", 4),
      UploadRequest("folder", NoFile, <<>>, <<>>, NoFile, NoFile, "", 4),
      UploadRequest("stations", UploadFile("STATIONS.CSV", <<>>, 5), <<>>, <<>>, NoFile, NoFile, "", 5),
      UploadRequest("stations", UploadFile("stations.txt", <<>>, 5), <<>>, <<>>, NoFile, NoFile, "", 5),
      UploadRequest("stations", NoFile, <<>>, <<>>, NoFile, NoFile, "", 5),
      UploadRequest("full", NoFile, <<>>, <<>>, UploadFile("stations.csv", <<>>, 5),
                    UploadFile("upload.zip", ZipOneDay, 6), "n6", 6),
      UploadRequest("full", NoFile, <<>>, <<>>, UploadFile("stations.txt", <<>>, 5),
                    UploadFile("upload.zip", ZipOneDay, 6), "", 6),
      UploadRequest("full", NoFile, <<>>, <<>>, UploadFile("stations.csv", <<>>, 5),
                    UploadFile("upload.txt", ZipOneDay, 6), "", 6),
      UploadRequest("full", NoFile, <<>>, <<>>, UploadFile("stations.csv", <<>>, 5), NoFile, "", 6),
      UploadRequest("full", NoFile, <<>>, <<>>, NoFile, NoFile, "", 6),
      UploadRequest("bogus", NoFile, <<>>, <<>>, NoFile, NoFile, "", 7) }

\* ------------------------------------------------------------ upload_data
\* What a handler's call of _archive_existing_dataset gave: NotCalled, Raised,
\* "" for None, or the name of the archive directory it returned.
NotCalled == "-"
Raised == "!"

\* An intermediate or final result of a handler: the file tree, the cache,
\* the response (status 0: no response yet) and the result of its call of
\* _archive_existing_dataset (which reads the clock).
Outcome(c, arch, ar, cache, status, ret) ==
    [cur |-> c, archives |-> arch, aroot |-> ar, cache |-> cache,
     status |-> status, ret |-> ret, archived |-> NotCalled]

Archived(a, c, cache, status, ret) ==
    [cur |-> c, archives |-> a.archives, aroot |-> TRUE, cache |-> cache,
     status |-> status, ret |-> ret, archived |-> IF a.err THEN Raised ELSE a.ret]

\* The block shared by the zip, full and folder branches once the files are in
\* the temporary directory: _find_dataset_root, _archive_existing_dataset,
\* _copy_dataset_into_webapp.
InstallFrom(files, tag, o, t, mt) ==
    LET roots == _find_dataset_root(files)
    IN  IF roots = {} THEN {[o EXCEPT !.status = 400]}
        ELSE UNION {
               { IF a.err
                 THEN Archived(a, a.cur, o.cache, 500, "")
                 ELSE IF CopyIntoRaises(a.cur, RootDays(files, root, tag))
                 THEN Archived(a, a.cur, o.cache, 500, "")
                 ELSE Archived(a, _copy_dataset_into_webapp(a.cur, RootDays(files, root, tag),
                                                            RootStations(files, root, tag, mt)),
                               NoCache, 0, a.ret)
                 : a \in _archive_existing_dataset(o.cur, o.archives, t) }
               : root \in roots }

ZipBranch(f, o, t, mt) ==
    IF ~endswith(lower(f.name), ".zip") THEN {[o EXCEPT !.status = 400]}
    ELSE LET ex == _safe_extract_zip(f.entries)
         IN  IF ex.err THEN {[o EXCEPT !.status = 400]}
             ELSE InstallFrom(ex.files, f.tag, o, t, mt)

FolderBranch(req, o, t, mt) ==
    IF req.files = <<>> THEN {[o EXCEPT !.status = 400]}
    ELSE LET w == _write_upload_files(req.files, req.paths)
         IN  IF w.err THEN {[o EXCEPT !.status = 400]}
             ELSE InstallFrom(w.files, req.tag, o, t, mt)

WriteStations(c, tag, mt) ==
    [c EXCEPT !.st["stations.csv"] = <<[tag |-> tag, mtime |-> mt]>>]

\* The rest of the "full" branch after the zip part left the outcome o.
FullStationsPart(req, o, t, mt) ==
    IF o.status # 0 THEN o
    ELSE IF req.stations_file # <<>> /\ ~endswith(lower(req.stations_file[1].name), ".csv")
    THEN [o EXCEPT !.status = 400]
    ELSE IF req.stations_file = <<>> /\ req.zip_file = <<>>
    THEN [o EXCEPT !.status = 400]
    ELSE LET c1 == IF req.stations_file # <<>>
                   THEN WriteStations(o.cur, req.stations_file[1].tag, mt)
                   ELSE o.cur
             k1 == IF req.stations_file # <<>> /\ req.zip_file = <<>> THEN NoCache ELSE o.cache
         IN  [o EXCEPT !.cur = _write_dataset_meta(c1, req.dataset_name, mt),
                       !.cache = k1, !.status = 200]

FullBranch(req, o, t, mt) ==
    LET afterZip == IF req.zip_file # <<>> THEN ZipBranch(req.zip_file[1], o, t, mt) ELSE {o}
    IN  {FullStationsPart(req, z, t, mt) : z \in afterZip}

StationsBranch(req, o, t, mt) ==
    IF req.file = <<>> THEN {[o EXCEPT !.status = 400]}
    ELSE IF ~endswith(lower(req.file[1].name), ".csv") THEN {[o EXCEPT !.status = 400]}
    ELSE {Outcome(_write_dataset_meta(WriteStations(o.cur, req.file[1].tag, mt),
                                      req.dataset_name, mt),
                  o.archives, o.aroot, NoCache, 200, "")}

Finish(req, o, mt) ==
    IF o.status # 0 THEN o
    ELSE [o EXCEPT !.cur = _write_dataset_meta(o.cur, req.dataset_name, mt), !.status = 200]

\* upload_data after the check of upload_mode and _ensure_default_dataset.
upload_data(req, o, t, mt) ==
    IF req.upload_mode = "full" THEN FullBranch(req, o, t, mt)
    ELSE IF req.upload_mode = "stations" THEN StationsBranch(req, o, t, mt)
    ELSE IF req.upload_mode = "zip" \/ (req.upload_mode = "" /\ req.file # <<>>)
    THEN IF req.file = <<>> THEN {[o EXCEPT !.status = 400]}
         ELSE {Finish(req, z, mt) : z \in ZipBranch(req.file[1], o, t, mt)}
    ELSE {Finish(req, z, mt) : z \in FolderBranch(req, o, t, mt)}

\* ------------------------------------------------------------- requests
NoRequest == UploadRequest("", NoFile, <<>>, <<>>, NoFile, NoFile, "", 0)

UnknownStamp == "19990101_000000"

\* The stamps a client sends: the names of the archives that exist, the two
\* sentinels, a name that does not exist, "" (no stamp given), and relative
\* paths.
RestoreStamps(arch) ==
    DOMAIN arch \cup {DEFAULT_ARCHIVE_STAMP, CURRENT_ARCHIVE_STAMP, UnknownStamp, ""}

ApplyStamps(arch) ==
    DOMAIN arch \cup {DEFAULT_ARCHIVE_STAMP, CURRENT_ARCHIVE_STAMP, UnknownStamp}

TraversalStamps == {".", "../_default", "../outputs"}

DeleteStamps(arch) ==
    DOMAIN arch \cup {DEFAULT_ARCHIVE_STAMP, CURRENT_ARCHIVE_STAMP, UnknownStamp}
      \cup TraversalStamps

Snapshot == [cur |-> cur, archives |-> archives, dflt |-> dflt, aroot |-> aroot,
             cache |-> stationsCache, resp |-> resp]

NoRestore == [restored |-> FALSE, arg |-> "", cur |-> EmptyDir]

\* Bookkeeping of the request history: last is the request just handled (the
\* upload request is kept when it succeeded); prev tells whether the request
\* before it was a successful restore, with its stamp and the dataset that was
\* current before it.
RecordRequest(op, arg, req, status, ret, archived) ==
    /\ nops' = nops + 1
    /\ last' = [op |-> op, arg |-> arg, req |-> IF status = 200 THEN req ELSE NoRequest,
                status |-> status, ret |-> ret, archived |-> archived,
                pre |-> Snapshot]
    /\ prev' = IF last.op = "restore" /\ last.status = 200
               THEN [restored |-> TRUE, arg |-> last.arg, cur |-> last.pre.cur]
               ELSE NoRestore
    /\ UNCHANGED <<fnIn, fnOut>>

\* A request to a handler of the dataset lifecycle.
Record(op, arg, req, status, ret, archived) ==
    /\ RecordRequest(op, arg, req, status, ret, archived)
    /\ resp' = NoResponse
    /\ UNCHANGED task

Init ==
    /\ now = 0
    /\ resp = NoResponse
    /\ cur \in {[SeedDataset EXCEPT !.outputs = MkRuntimeDir(<<>>)],
                [EmptyDir EXCEPT !.outputs = MkRuntimeDir(<<>>)]}
    /\ archives = <<>>
    /\ aroot \in IF _dataset_has_content(<<cur>>) THEN {FALSE} ELSE {FALSE, TRUE}
    /\ dflt = <<>>
    /\ stationsCache = NoCache
    /\ nops = 0
    /\ last = [op |-> "init", arg |-> "", req |-> NoRequest, status |-> 0, ret |-> "",
               archived |-> NotCalled, pre |-> Snapshot]
    /\ prev = NoRestore
    /\ fnIn = NoCall
    /\ fnOut = NoResult
    /\ task = NoTask

\* datetime.utcnow() does not go back: a handler that reads the clock sees
\* the second of the previous reading or a later one.
ClockReadings == now..MaxClock

\* POST /data/upload
Upload ==
    /\ nops < MaxOps
    /\ \E req \in UploadRequests :
         IF req.upload_mode \notin {"zip", "folder", "stations", "full", ""}
         THEN /\ Record("upload", req.upload_mode, req, 400, "", NotCalled)
              /\ UNCHANGED <<now, cur, archives, aroot, dflt, stationsCache>>
         ELSE \E t \in ClockReadings :
              \E o \in upload_data(req, Outcome(cur, archives, aroot, stationsCache, 0, ""),
                                   t, nops + 1) :
                /\ dflt' = _ensure_default_dataset(cur, dflt)
                /\ cur' = o.cur
                /\ archives' = o.archives
                /\ aroot' = o.aroot
                /\ stationsCache' = o.cache
                /\ now' = IF o.archived # NotCalled THEN t ELSE now
                /\ Record("upload", req.upload_mode, req, o.status, o.ret, o.archived)

\* _restore_archive: the target named by stamp; [status, name].
RestoreTarget(stamp, arch, ar, df) ==
    IF stamp = DEFAULT_ARCHIVE_STAMP
    THEN IF ~_dataset_has_content(df) THEN [status |-> 404, name |-> ""]
         ELSE [status |-> 0, name |-> DEFAULT_ARCHIVE_STAMP]
    ELSE IF stamp = CURRENT_ARCHIVE_STAMP THEN [status |-> 400, name |-> ""]
    ELSE IF _list_archives(arch, ar) = {} THEN [status |-> 404, name |-> ""]
    ELSE IF stamp # ""
    THEN IF stamp \notin DOMAIN arch THEN [status |-> 404, name |-> ""]
         ELSE [status |-> 0, name |-> stamp]
    ELSE [status |-> 0, name |-> LatestStamp(_list_archives(arch, ar))]

\* The directory a target name stands for.
TargetDir(name, arch, df) ==
    IF name = DEFAULT_ARCHIVE_STAMP THEN df[1] ELSE arch[name]

\* The copy loop of _restore_archive and _apply_archive: every entry of the
\* target directory is copied into the data directory c (copy2 for files,
\* copytree for directories).  CopyTargetWithoutOutputs is the variant that
\* leaves outputs/ out.
CopyTargetWithoutOutputs(c, target) ==
    [days |-> [d \in DateNames |-> IF target.days[d] # <<>> THEN target.days[d] ELSE c.days[d]],
     st |-> [f \in StationFileNames |-> IF target.st[f] # <<>> THEN target.st[f] ELSE c.st[f]],
     meta |-> IF target.meta # <<>> THEN target.meta ELSE c.meta,
     outputs |-> c.outputs]

CopyTarget(c, target) ==
    [days |-> [d \in DateNames |-> IF target.days[d] # <<>> THEN target.days[d] ELSE c.days[d]],
     st |-> [f \in StationFileNames |-> IF target.st[f] # <<>> THEN target.st[f] ELSE c.st[f]],
     meta |-> IF target.meta # <<>> THEN target.meta ELSE c.meta,
     outputs |-> IF target.outputs # <<>> THEN target.outputs ELSE c.outputs]

\* _restore_archive(stamp): the possible outcomes.
_restore_archive(stamp, c, arch, ar, df, cache, t) ==
    LET tg == RestoreTarget(stamp, arch, ar, df)
        df1 == _ensure_default_dataset(c, df)
    IN  IF tg.status # 0
        THEN {[o |-> Outcome(c, arch, ar, cache, tg.status, ""), dflt |-> df]}
        ELSE { IF a.err
               THEN [o |-> Archived(a, a.cur, cache, 500, ""), dflt |-> df1]
               ELSE [o |-> Archived(a, CopyTarget(_clear_current_dataset(a.cur),
                                                  TargetDir(tg.name, a.archives, df1)),
                                    NoCache, 200, tg.name),
                     dflt |-> df1]
               : a \in _archive_existing_dataset(c, arch, t) }

\* POST /data/revert
Restore ==
    /\ nops < MaxOps
    /\ \E stamp \in RestoreStamps(archives), t \in ClockReadings :
       \E r \in _restore_archive(stamp, cur, archives, aroot, dflt, stationsCache, t) :
         /\ cur' = r.o.cur
         /\ archives' = r.o.archives
         /\ aroot' = r.o.aroot
         /\ dflt' = r.dflt
         /\ stationsCache' = r.o.cache
         /\ now' = IF r.o.archived # NotCalled THEN t ELSE now
         /\ Record("restore", stamp, NoRequest, r.o.status, r.o.ret, r.o.archived)

\* _apply_archive(stamp)
_apply_archive(stamp, c, arch, ar, df, cache) ==
    IF stamp = DEFAULT_ARCHIVE_STAMP /\ ~_dataset_has_content(df)
    THEN Outcome(c, arch, ar, cache, 404, "")
    ELSE IF stamp = CURRENT_ARCHIVE_STAMP
    THEN Outcome(c, arch, ar, cache, 400, "")
    ELSE IF stamp # DEFAULT_ARCHIVE_STAMP /\ ~(ar /\ stamp \in DOMAIN arch)
    THEN Outcome(c, arch, ar, cache, 404, "")
    ELSE Outcome(CopyTarget(_clear_current_dataset(c), TargetDir(stamp, arch, df)),
                 arch, ar, NoCache, 200, stamp)

\* _infer_available_date_range raises 404 without a date folder.
HasDateDir(c) == \E d \in DateNames : c.days[d] # <<>>

\* POST /data/apply-archive
Apply ==
    /\ nops < MaxOps
    /\ \E stamp \in ApplyStamps(archives) :
         LET o == _apply_archive(stamp, cur, archives, aroot, dflt, stationsCache)
         IN  /\ cur' = o.cur
             /\ stationsCache' = o.cache
             /\ Record("apply", stamp, NoRequest,
                       IF o.status = 200 /\ ~HasDateDir(o.cur) THEN 404 ELSE o.status,
                       o.ret, NotCalled)
             /\ UNCHANGED <<now, archives, aroot, dflt>>

\* archive_root / stamp for the stamps of DeleteStamps: what the path names.
\* A path through _archive exists only if _archive does.
DeletePathExists(stamp, c, arch, ar, df) ==
    /\ ar
    /\ CASE stamp = "." -> TRUE
         [] stamp = "../_default" -> df # <<>>
         [] stamp = "../outputs" -> c.outputs # <<>>
         [] OTHER -> stamp \in DOMAIN arch

\* POST /data/delete-archive: [cur, archives, aroot, dflt, status].
delete_archive(stamp, c, arch, ar, df) ==
    IF stamp \in {DEFAULT_ARCHIVE_STAMP, CURRENT_ARCHIVE_STAMP}
    THEN [cur |-> c, archives |-> arch, aroot |-> ar, dflt |-> df, status |-> 400]
    ELSE IF ~DeletePathExists(stamp, c, arch, ar, df)
    THEN [cur |-> c, archives |-> arch, aroot |-> ar, dflt |-> df, status |-> 404]
    ELSE CASE stamp = "." ->
                [cur |-> c, archives |-> <<>>, aroot |-> FALSE, dflt |-> df, status |-> 200]
           [] stamp = "../_default" ->
                [cur |-> c, archives |-> arch, aroot |-> ar, dflt |-> <<>>, status |-> 200]
           [] stamp = "../outputs" ->
                [cur |-> [c EXCEPT !.outputs = <<>>], archives |-> arch, aroot |-> ar,
                 dflt |-> df, status |-> 200]
           [] OTHER ->
                [cur |-> c, archives |-> [s \in DOMAIN arch \ {stamp} |-> arch[s]],
                 aroot |-> ar, dflt |-> df, status |-> 200]

Delete ==
    /\ nops < MaxOps
    /\ \E stamp \in DeleteStamps(archives) :
         LET r == delete_archive(stamp, cur, archives, aroot, dflt)
         IN  /\ cur' = r.cur
             /\ archives' = r.archives
             /\ aroot' = r.aroot
             /\ dflt' = r.dflt
             /\ Record("delete", stamp, NoRequest, r.status, "", NotCalled)
             /\ UNCHANGED <<now, stationsCache>>

\* POST /data/clear-archives: [cur, archives, aroot, dflt].
clear_all_archives(c, arch, ar, df) ==
    LET df1 == _ensure_default_dataset(c, df)
    IN  IF ~ar THEN [cur |-> c, archives |-> arch, aroot |-> ar, dflt |-> df1]
        ELSE [cur |-> IF _dataset_has_content(df1)
                      THEN CopyTarget(_clear_current_dataset(c), _copy_dataset_contents(df1[1]))
                      ELSE c,
              archives |-> <<>>, aroot |-> FALSE, dflt |-> df1]

ClearArchives ==
    /\ nops < MaxOps
    /\ LET r == clear_all_archives(cur, archives, aroot, dflt)
       IN  /\ cur' = r.cur
           /\ archives' = r.archives
           /\ aroot' = r.aroot
           /\ dflt' = r.dflt
           /\ Record("clear", "", NoRequest, 200, "", NotCalled)
           /\ UNCHANGED <<now, stationsCache>>

\* LoadIndexIgnoringMtime is the variant that keeps a cached index whatever
\* the mtime of the file.
LoadIndexIgnoringMtime(c, cache) ==
    LET f == c.st["stations.csv"]
    IN  IF f = <<>> THEN cache
        ELSE IF cache.by_code # -1 THEN cache
        ELSE [mtime |-> f[1].mtime, by_code |-> f[1].tag]

\* _load_stations_index: the new value of _STATIONS_CACHE.  The index is
\* rebuilt unless the cached mtime equals the mtime of stations.csv.
_load_stations_index(c, cache) ==
    LET f == c.st["stations.csv"]
    IN  IF f = <<>> THEN cache
        ELSE IF cache.mtime = f[1].mtime /\ cache.by_code # -1 THEN cache
        ELSE [mtime |-> f[1].mtime, by_code |-> f[1].tag]

\* A request that reads the station index (GET /stations and the filters),
\* taken when it changes the cache.
LoadStationsIndex ==
    /\ stationsCache' = _load_stations_index(cur, stationsCache)
    /\ stationsCache' # stationsCache
    /\ last' = [op |-> "index", arg |-> "", req |-> NoRequest, status |-> 200, ret |-> "",
                archived |-> NotCalled, pre |-> Snapshot]
    /\ prev' = NoRestore
    /\ UNCHANGED <<now, cur, archives, aroot, dflt, nops, fnIn, fnOut, resp, task>>

Next ==
    \/ Upload
    \/ Restore
    \/ Apply
    \/ Delete
    \/ ClearArchives
    \/ LoadStationsIndex

Spec == Init /\ [][Next]_vars

\* The lifecycle without delete-archive: upload, restore, apply and
\* clear-archives.
ReplaceNext ==
    \/ Upload
    \/ Restore
    \/ Apply
    \/ ClearArchives
    \/ LoadStationsIndex

ReplaceSpec == Init /\ [][ReplaceNext]_vars

\* ================================================== functions on their own
\* The functions below do not touch the file tree; each is applied to
\* arguments drawn from a bounded set.

\* ------------------------------------------------------ _safe_extract_zip
\* Entry names of a zip archive: a file, a file in a date folder, a name with
\* ".." components, an absolute name, a resource-fork entry, a directory entry.
ZipEntryNames ==
    {<<"stations.csv">>, <<"2024-08-16", "trains.csv">>, <<"..", "..", "etc", "passwd">>,
     <<"", "etc", "passwd">>, <<"__MACOSX", "x">>, <<"dir", "">>}

MaxEntries == 2

RECURSIVE SeqsUpTo(_, _)
SeqsUpTo(S, n) ==
    IF n = 0 THEN {<<>>}
    ELSE LET shorter == SeqsUpTo(S, n - 1)
         IN  shorter \cup {Append(q, x) : q \in {r \in shorter : Len(r) = n - 1}, x \in S}

ZipInputs ==
    {[fn |-> "_safe_extract_zip", entries |-> z] : z \in SeqsUpTo(ZipEntryNames, MaxEntries) \ {<<>>}}

\* _safe_extract_zip(zip_path, dest) on an empty directory dest: whether it
\* raised, and the files in dest when it returned or raised.
SafeExtractZip ==
    /\ fnIn.fn = "_safe_extract_zip" /\ ~fnOut.done
    /\ LET r == _safe_extract_zip(fnIn.entries)
       IN  fnOut' = [done |-> TRUE, err |-> r.err, files |-> r.files]
    /\ UNCHANGED <<now, cur, archives, aroot, dflt, stationsCache, nops, last, prev, fnIn, resp,
                   task>>

\* ------------------------------------------------------------- cache keys
\* A query parameter holding a comma-separated list is the sequence of the
\* pieces between its commas; <<>> is a parameter that was not given.
strip(piece) ==
    CASE piece \in {" A ", " A", "A "} -> "A"
      [] piece \in {" milano ", "milano "} -> "milano"
      [] piece = " Lombardia" -> "Lombardia"
      [] piece = " " -> ""
      [] OTHER -> piece

\* _parse_csv_list: the pieces stripped, the empty ones dropped, in the order
\* of the parameter.
RECURSIVE _parse_csv_list(_)
_parse_csv_list(value) ==
    IF value = <<>> THEN <<>>
    ELSE LET v == strip(Head(value))
         IN  IF v = "" THEN _parse_csv_list(Tail(value))
             ELSE <<v>> \o _parse_csv_list(Tail(value))

\* _cache_suffix: json.dumps(payload, sort_keys=True) writes the keys in
\* sorted order and every list in the order it has; the first 12 hex digits
\* of the SHA-256 of that text stand for the text (no two of the payloads
\* used here have the same digest).  Dates are day numbers, isoformat() being
\* one-to-one.
_cache_suffix(payload) ==
    << <<"e", payload.e>>,
       <<"railway_companies", payload.railway_companies>>,
       <<"regions", payload.regions>>,
       <<"s", payload.s>>,
       <<"station_query", payload.station_query>> >>

\* The name of the cache file of an aggregator (kind is "describe",
\* "delay_boxplot" or "day_train_count") for a request.
CacheFileName(kind, s, e, railway_companies, regions, station_query) ==
    LET suffix == _cache_suffix([s |-> s, e |-> e,
                                 railway_companies |-> _parse_csv_list(railway_companies),
                                 regions |-> _parse_csv_list(regions),
                                 station_query |-> strip(station_query)])
    IN  <<kind, s, e, suffix>>

AggregatorKinds == {"describe", "delay_boxplot", "day_train_count"}

CompanyParams == {<<>>, <<"A">>, <<"A", "B">>, <<"B", "A">>, <<" A ", "B">>, <<"A", "", "B">>}

RegionParams == {<<>>, <<"Lombardia", "Piemonte">>, <<"Piemonte", "Lombardia">>}

StationQueryParams == {"", "milano", " milano "}

KeyParams ==
    [railway_companies : CompanyParams, regions : RegionParams,
     station_query : StationQueryParams]

KeyInputs ==
    {[fn |-> "cache_key", kind |-> k, p |-> p, q |-> q] :
        k \in AggregatorKinds, p \in KeyParams, q \in KeyParams}

\* The cache file names of two requests for the same dates.
CacheKey ==
    /\ fnIn.fn = "cache_key" /\ ~fnOut.done
    /\ fnOut' = [done |-> TRUE,
                 key1 |-> CacheFileName(fnIn.kind, 0, 1, fnIn.p.railway_companies,
                                        fnIn.p.regions, fnIn.p.station_query),
                 key2 |-> CacheFileName(fnIn.kind, 0, 1, fnIn.q.railway_companies,
                                        fnIn.q.regions, fnIn.q.station_query)]
    /\ UNCHANGED <<now, cur, archives, aroot, dflt, stationsCache, nops, last, prev, fnIn, resp,
                   task>>

\* -------------------------------------------------------- _validate_range
MAX_RANGE_DAYS == 366

MaxStartDay == 2

\* The variant that rejects a range of exactly max_days days.
ValidateRangeStrict(s, e, max_days) ==
    IF e < s THEN 400
    ELSE IF e - s >= max_days THEN 400
    ELSE 0

\* _validate_range(s, e, max_days): 0 when it returns, else the status of the
\* HTTPException.  s and e are day numbers, so (e - s).days is e - s.
_validate_range(s, e, max_days) ==
    IF e < s THEN 400
    ELSE IF e - s > max_days THEN 400
    ELSE 0

RangeInputs ==
    {[fn |-> "_validate_range", s |-> a, e |-> b] :
        a \in 0..MaxStartDay, b \in 0..(MAX_RANGE_DAYS + MaxStartDay + 1)}

ValidateRange ==
    /\ fnIn.fn = "_validate_range" /\ ~fnOut.done
    /\ fnOut' = [done |-> TRUE, status |-> _validate_range(fnIn.s, fnIn.e, MAX_RANGE_DAYS)]
    /\ UNCHANGED <<now, cur, archives, aroot, dflt, stationsCache, nops, last, prev, fnIn, resp,
                   task>>

\* ------------------------------------------------------------ data frames
\* A table is [cols, rows]: the set of its column names and the sequence of
\* its rows.  A row has a cell for every column of usecols; the cell of a
\* column the table lacks is not looked at.  A numeric cell is <<>> (NaN) or
\* <<n>>; a cell of another column is a string, "" for NaN (a blank in the
\* file, or a day that cannot be parsed).  A flag cell is "True" or "False",
\* or "" where the file has a blank.
usecols ==
    {"train_hash", "stop_number", "arrival_delay", "departure_delay", "crowding", "day",
     "stop_station_code", "client_code", "phantom", "trenord_phantom"}

StopRow(train_hash, stop_number, arrival_delay, departure_delay, day, stop_station_code, client_code, phantom, trenord_phantom) ==
    [train_hash |-> train_hash, stop_number |-> stop_number, arrival_delay |-> arrival_delay,
     departure_delay |-> departure_delay, crowding |-> <<>>, day |-> day,
     stop_station_code |-> stop_station_code, client_code |-> client_code,
     phantom |-> phantom, trenord_phantom |-> trenord_phantom]

\* pd.read_csv(f, usecols=cols) followed by pd.concat: the frame of one file
\* with the cells of the columns it lacks set to NaN when another file of the
\* concatenation has them.
Reindex(table, cols) ==
    LET fill(r) ==
          [train_hash |-> IF "train_hash" \in table.cols THEN r.train_hash ELSE "",
           stop_number |-> IF "stop_number" \in table.cols THEN r.stop_number ELSE <<>>,
           arrival_delay |-> IF "arrival_delay" \in table.cols THEN r.arrival_delay ELSE <<>>,
           departure_delay |-> IF "departure_delay" \in table.cols THEN r.departure_delay ELSE <<>>,
           crowding |-> IF "crowding" \in table.cols THEN r.crowding ELSE <<>>,
           day |-> IF "day" \in table.cols THEN r.day ELSE "",
           stop_station_code |-> IF "stop_station_code" \in table.cols
                                 THEN r.stop_station_code ELSE "",
           client_code |-> IF "client_code" \in table.cols THEN r.client_code ELSE "",
           phantom |-> IF "phantom" \in table.cols THEN r.phantom ELSE "",
           trenord_phantom |-> IF "trenord_phantom" \in table.cols
                               THEN r.trenord_phantom ELSE ""]
    IN  [i \in 1..Len(table.rows) |-> fill(table.rows[i])]

RECURSIVE ConcatRows(_, _)
ConcatRows(frames, cols) ==
    IF frames = <<>> THEN <<>>
    ELSE Reindex(Head(frames), cols) \o ConcatRows(Tail(frames), cols)

concat(frames) ==
    LET cols == UNION {frames[i].cols : i \in 1..Len(frames)}
    IN  [cols |-> cols, rows |-> ConcatRows(frames, cols)]

\* df.loc[df.phantom == False] and df.loc[df.trenord_phantom == False], each
\* applied when the column exists and followed by dropping the column: a row
\* stays when its flag is False; NaN == False is False.
PhantomFilter(df) ==
    LET a == IF "phantom" \in df.cols
             THEN [cols |-> df.cols \ {"phantom"},
                   rows |-> SelectSeq(df.rows, LAMBDA r : r.phantom = "False")]
             ELSE df
    IN  IF "trenord_phantom" \in a.cols
        THEN [cols |-> a.cols \ {"trenord_phantom"},
              rows |-> SelectSeq(a.rows, LAMBDA r : r.trenord_phantom = "False")]
        ELSE a

\* pd.to_datetime(df["day"], errors="coerce") and df.loc[df["day"].notna()].
DayFilter(df) ==
    IF "day" \in df.cols
    THEN [df EXCEPT !.rows = SelectSeq(df.rows, LAMBDA r : r.day # "")]
    ELSE df

\* _map_company on the codes of the tables used here: a name that is no number
\* is kept, None or NaN or a blank becomes "OTHER".
_map_company(v) == IF v = "" THEN "OTHER" ELSE v

CompanyFilter(df, railway_companies) ==
    LET mapped == IF "client_code" \in df.cols
                  THEN [df EXCEPT !.rows =
                           [i \in 1..Len(df.rows) |->
                              [df.rows[i] EXCEPT !.client_code = _map_company(@)]]]
                  ELSE df
        listed(r) == \E i \in 1..Len(railway_companies) : railway_companies[i] = r.client_code
    IN  IF railway_companies # <<>>
        THEN [mapped EXCEPT !.rows = SelectSeq(mapped.rows, listed)]
        ELSE mapped

\* ---------------------------------------------------------- station index
REGION_CODE_TO_NAME == [c \in {1, 3} |-> IF c = 1 THEN "Lombardia" ELSE "Piemonte"]

\* Rows of stations.csv: code, long_name, short_name, region (<<>> for blank).
StationRow(code, long_name, short_name, region) ==
    [code |-> code, long_name |-> long_name, short_name |-> short_name, region |-> region]

StationRows ==
    {StationRow("S01700", "MILANO CENTRALE", "MILANO C.LE", <<1>>),
     StationRow("S01301", "COMO S. GIOVANNI", "COMO", <<1>>),
     StationRow("S00219", "TORINO PORTA NUOVA", "TORINO P.N.", <<3>>),
     StationRow("S09999", "CHIASSO", "", <<>>)}

\* The index _load_stations_index builds from the rows of stations.csv:
\* by_code and codes_by_region_name (keyed by the lower-cased region name).
BuildStationsIndex(rows) ==
    LET region_name(r) == IF r.region # <<>> /\ r.region[1] \in DOMAIN REGION_CODE_TO_NAME
                          THEN REGION_CODE_TO_NAME[r.region[1]] ELSE ""
        named == {r \in rows : region_name(r) # ""}
    IN  [by_code |-> {[code |-> r.code,
                       name |-> IF r.long_name # "" THEN r.long_name
                                ELSE IF r.short_name # "" THEN r.short_name ELSE r.code,
                       short_name |-> r.short_name] : r \in {x \in rows : x.code # ""}},
         codes_by_region_name |->
             [k \in {lower(region_name(r)) : r \in named} |->
                 {r.code : r \in {x \in named : lower(region_name(x)) = k}}]]

\* needle in f"{code} {name} {short_name}".lower() for the needles used here
\* (lower-cased and stripped already).
Occurs(needle, st) ==
    CASE needle = "torino" -> st.code = "S00219"
      [] needle = "mil" -> st.code = "S01700"
      [] needle = "s0" -> st.code \in {"S01700", "S01301", "S00219", "S09999"}
      [] needle = "como" -> st.code = "S01301"
      [] OTHER -> FALSE

\* _resolve_station_codes
_resolve_station_codes(query, stations_index) ==
    LET needle == lower(strip(query))
    IN  IF needle = "" THEN {}
        ELSE {st.code : st \in {x \in stations_index.by_code : Occurs(needle, x)}}

\* The variant in which a region filter makes the station query ignored.
StationFilterRegionFirst(df, regions, station_query, stations_index) ==
    LET region_keys == SelectSeq([i \in 1..Len(regions) |-> lower(strip(regions[i]))],
                                 LAMBDA k : k # "")
        by_region == stations_index.codes_by_region_name
        region_codes == UNION {IF region_keys[i] \in DOMAIN by_region
                               THEN by_region[region_keys[i]] ELSE {} :
                               i \in 1..Len(region_keys)}
        allowed == IF regions # <<>> THEN region_codes
                   ELSE _resolve_station_codes(station_query, stations_index)
    IN  IF regions = <<>> /\ station_query = "" THEN df
        ELSE IF "stop_station_code" \notin df.cols THEN [df EXCEPT !.rows = <<>>]
        ELSE [df EXCEPT !.rows = SelectSeq(df.rows, LAMBDA r : r.stop_station_code \in allowed)]

\* The part of _load_trains_df after the company filter: the region and the
\* station constraint resolved to station codes and applied.  regions is the
\* parsed list, station_query the parameter as given ("" for None).
StationFilter(df, regions, station_query, stations_index) ==
    LET region_keys == SelectSeq([i \in 1..Len(regions) |-> lower(strip(regions[i]))],
                                 LAMBDA k : k # "")
        by_region == stations_index.codes_by_region_name
        region_codes == UNION {IF region_keys[i] \in DOMAIN by_region
                               THEN by_region[region_keys[i]] ELSE {} :
                               i \in 1..Len(region_keys)}
        station_codes == _resolve_station_codes(station_query, stations_index)
        allowed == IF regions # <<>> /\ station_query # "" THEN region_codes \cap station_codes
                   ELSE IF regions # <<>> THEN region_codes
                   ELSE station_codes
    IN  IF regions = <<>> /\ station_query = "" THEN df
        ELSE IF "stop_station_code" \notin df.cols THEN [df EXCEPT !.rows = <<>>]
        ELSE [df EXCEPT !.rows = SelectSeq(df.rows, LAMBDA r : r.stop_station_code \in allowed)]

\* _load_trains_df on the tables of the trains.csv files of the date range,
\* in date order: [status, df], status 0 when it returns.
_load_trains_df(tables, railway_companies, regions, station_query, stations_index) ==
    LET frames == SelectSeq([i \in 1..Len(tables) |->
                                [tables[i] EXCEPT !.cols = @ \cap usecols]],
                            LAMBDA t : t.cols # {})
    IN  IF tables = <<>> THEN [status |-> 404, df |-> [cols |-> {}, rows |-> <<>>]]
        ELSE IF frames = <<>> THEN [status |-> 404, df |-> [cols |-> {}, rows |-> <<>>]]
        ELSE [status |-> 0,
              df |-> StationFilter(
                       CompanyFilter(DayFilter(PhantomFilter(concat(frames))),
                                     railway_companies),
                       regions, station_query, stations_index)]

\* -------------------------------------------------------- terminal stops
\* The cell of a numeric column of a row.
Cell(r, c) ==
    CASE c = "stop_number" -> r.stop_number
      [] c = "arrival_delay" -> r.arrival_delay
      [] c = "departure_delay" -> r.departure_delay
      [] OTHER -> r.crowding

\* sub.sort_values("stop_number"): row j is certain to come after row i when
\* its stop number is larger or, NaN being sorted last, when it alone has no
\* stop number; rows with equal keys come in any order (the sort is not
\* stable).  Without the column the rows keep the order of the table.
ComesAfter(rows, j, i, sorted) ==
    IF ~sorted THEN j > i
    ELSE /\ rows[i].stop_number # <<>>
         /\ \/ rows[j].stop_number = <<>>
            \/ rows[j].stop_number[1] > rows[i].stop_number[1]

\* GroupBy.last() of column c over the rows of one group: the cell of the last
\* row whose cell is not NaN, NaN when there is none.
LastCells(rows, group, c, sorted) ==
    LET filled == {i \in group : Cell(rows[i], c) # <<>>}
        lasts == {i \in filled : \A j \in filled : ~ComesAfter(rows, j, i, sorted)}
    IN  IF filled = {} THEN {<<>>} ELSE {Cell(rows[i], c) : i \in lasts}

\* per_train of get_delay_boxplot: sub = df[needed] sorted by stop_number when
\* the column exists, then groupby("train_hash").last().  The set of the
\* tables the statement can give: train_hash -> [stop_number, arrival_delay,
\* departure_delay], the cell of a column the table lacks being <<>>.
PerTrainLast(df) ==
    LET rows == df.rows
        sorted == "stop_number" \in df.cols
        trains == {rows[i].train_hash : i \in 1..Len(rows)} \ {""}
        group(h) == {i \in 1..Len(rows) : rows[i].train_hash = h}
        cells(h, c) == IF c \in df.cols THEN LastCells(rows, group(h), c, sorted) ELSE {<<>>}
        choices(h) == [stop_number : cells(h, "stop_number"),
                       arrival_delay : cells(h, "arrival_delay"),
                       departure_delay : cells(h, "departure_delay")]
    IN  {f \in [trains -> UNION {choices(h) : h \in trains}] :
            \A h \in trains : f[h] \in choices(h)}

\* get_delay_boxplot after _load_trains_df returned df: the status and the
\* values drawn, [status, per_train].
DelayBoxplotOf(df) ==
    IF df.rows = <<>> THEN {[status |-> 404, per_train |-> <<>>]}
    ELSE IF "train_hash" \notin df.cols THEN {[status |-> 500, per_train |-> <<>>]}
    ELSE IF df.cols \cap {"arrival_delay", "departure_delay"} = {}
    THEN {[status |-> 404, per_train |-> <<>>]}
    ELSE {[status |-> 200, per_train |-> f] : f \in PerTrainLast(df)}

MaxStops == 3

FlagCells == {"True", "False", ""}

\* The trains.csv tables of one trip with the stops 1..MaxStops, one row a
\* stop, in the order of the stop numbers.
StopChoices(k) ==
    {StopRow("t1", <<k>>, a, <<k>>, "2024-08-16", "S01700", "A", ph, tph) :
        a \in {<<>>, <<10 * k>>}, ph \in FlagCells, tph \in {"True", "False"}}

TripTables ==
    {rows \in [1..MaxStops -> UNION {StopChoices(k) : k \in 1..MaxStops}] :
        \A k \in 1..MaxStops : rows[k] \in StopChoices(k)}

TerminalInputs ==
    {[fn |-> "get_delay_boxplot", table |-> [cols |-> usecols \ {"crowding"}, rows |-> rows]] :
        rows \in TripTables}

NoStationsIndex == [by_code |-> {}, codes_by_region_name |-> <<>>]

\* get_delay_boxplot without filters on a dataset of one trains.csv.
DelayBoxplotLast ==
    /\ fnIn.fn = "get_delay_boxplot" /\ ~fnOut.done
    /\ LET l == _load_trains_df(<<fnIn.table>>, <<>>, <<>>, "", NoStationsIndex)
       IN  \E r \in DelayBoxplotOf(l.df) :
              fnOut' = [done |-> TRUE, status |-> r.status, per_train |-> r.per_train]
    /\ UNCHANGED <<now, cur, archives, aroot, dflt, stationsCache, nops, last, prev, fnIn, resp,
                   task>>

\* ------------------------------------------------------ filter composition
FilterTable ==
    << StopRow("t1", <<1>>, <<0>>, <<0>>, "2024-08-16", "S01700", "A", "False", "False"),
       StopRow("t1", <<2>>, <<3>>, <<3>>, "2024-08-16", "S01301", "A", "False", "False"),
       StopRow("t2", <<1>>, <<1>>, <<1>>, "2024-08-16", "S00219", "B", "False", "False"),
       StopRow("t2", <<2>>, <<5>>, <<5>>, "2024-08-16", "S09999", "B", "False", "False"),
       StopRow("t3", <<1>>, <<2>>, <<2>>, "2024-08-16", "S05555", "A", "False", "False") >>

FilterTables ==
    {[cols |-> usecols \ {"crowding"}, rows |-> FilterTable],
     [cols |-> usecols \ {"crowding", "stop_station_code"}, rows |-> FilterTable]}

RegionFilterParams ==
    {<<>>, <<" ">>, <<"Lombardia">>, <<"LOMBARDIA">>, <<"Piemonte">>,
     <<" Lombardia", "Piemonte">>, <<"Atlantide">>}

StationFilterParams == {"", " ", "torino", "Torino", "mil", "como", "s0", "zzz"}

FilterInputs ==
    {[fn |-> "_load_trains_df", table |-> t, railway_companies |-> c, regions |-> r,
      station_query |-> q] :
        t \in FilterTables, c \in {<<>>, <<"A">>}, r \in RegionFilterParams,
        q \in StationFilterParams}

\* _load_trains_df as the aggregators call it, with the parsed lists and the
\* station query as given, on a dataset of one trains.csv.
LoadTrainsDf ==
    /\ fnIn.fn = "_load_trains_df" /\ ~fnOut.done
    /\ LET l == _load_trains_df(<<fnIn.table>>, _parse_csv_list(fnIn.railway_companies),
                                _parse_csv_list(fnIn.regions), fnIn.station_query,
                                BuildStationsIndex(StationRows))
       IN  fnOut' = [done |-> TRUE, status |-> l.status, df |-> l.df]
    /\ UNCHANGED <<now, cur, archives, aroot, dflt, stationsCache, nops, last, prev, fnIn, resp,
                   task>>

\* ============================================================ aggregators
\* ------------------------------------------------- contents of the files
\* The table of the trains.csv in date folder d, by the tag of its bytes:
\* upload 12 has a row with a blank phantom cell, upload 13 has no train_hash
\* column, the 2024-08-17 file of upload 16 has no phantom column; every
\* other trains.csv has three trips, one of them with a phantom stop only.
TrainsCsv(tag, d) ==
    CASE tag = 12 ->
           [cols |-> usecols \ {"crowding"},
            rows |-> << StopRow("t1", <<1>>, <<4>>, <<5>>, d, "S01700", "A", "False", "False"),
                        StopRow("t2", <<1>>, <<2>>, <<3>>, d, "S01301", "A", "", "False") >>]
      [] tag = 16 /\ d = "2024-08-17" ->
           [cols |-> usecols \ {"crowding", "phantom", "trenord_phantom"},
            rows |-> << StopRow("t4", <<1>>, <<4>>, <<5>>, d, "S01700", "A", "", ""),
                        StopRow("t5", <<1>>, <<2>>, <<3>>, d, "S01301", "B", "", "") >>]
      [] tag = 13 ->
           [cols |-> usecols \ {"crowding", "train_hash"},
            rows |-> << StopRow("", <<1>>, <<4>>, <<5>>, d, "S01700", "A", "False", "False") >>]
      [] OTHER ->
           [cols |-> usecols \ {"crowding"},
            rows |-> << StopRow("t1", <<1>>, <<0>>, <<1>>, d, "S01700", "A", "False", "False"),
                        StopRow("t1", <<2>>, <<3>>, <<>>, d, "S01301", "A", "False", "False"),
                        StopRow("t2", <<1>>, <<7>>, <<7>>, d, "S00219", "B", "False", "False"),
                        StopRow("t3", <<1>>, <<9>>, <<9>>, d, "S00219", "B", "True", "False") >>]

\* The rows of a stations.csv, by the tag of its bytes.
StationsCsv(tag) == StationRows

\* sorted(DATA_RAW_DIR.iterdir()): the date folders in the order of their names.
DateSeq == <<"2023-08-15", "2024-08-16", "2024-08-17">>

\* _infer_available_date_range: [status, min, max] over the folders whose name
\* is a date.
_infer_available_date_range(c) ==
    LET dates == {fromisoformat(d) : d \in {x \in DateNames : c.days[x] # <<>>}}
    IN  IF dates = {} THEN [status |-> 404, min |-> 0, max |-> 0]
        ELSE [status |-> 0,
              min |-> CHOOSE a \in dates : \A b \in dates : a <= b,
              max |-> CHOOSE a \in dates : \A b \in dates : b <= a]

\* _list_train_csv_files(s, e): the trains.csv files of the date folders in
\* [s, e], as tables; the empty sequence stands for the 404 error.
_list_train_csv_files(c, s, e) ==
    LET inrange == SelectSeq(DateSeq, LAMBDA d :
                       /\ c.days[d] # <<>>
                       /\ s <= fromisoformat(d) /\ fromisoformat(d) <= e
                       /\ c.days[d][1].trains)
    IN  [i \in 1..Len(inrange) |-> TrainsCsv(c.days[inrange[i]][1].tag, inrange[i])]

\* The index _load_stations_index returns, the cache being up to date.
StationsIndexOf(c, cache) ==
    IF c.st["stations.csv"] = <<>> THEN NoStationsIndex
    ELSE BuildStationsIndex(StationsCsv(cache.by_code))

\* ------------------------------------------------------------ the requests
\* A request to an aggregator: start_date and end_date ("" when not given),
\* station_query ("" when not given) and recompute; default_window_days is 30
\* and no company or region filter is given.
StatRequest(start_date, end_date, station_query, recompute) ==
    [start_date |-> start_date, end_date |-> end_date, station_query |-> station_query,
     recompute |-> recompute]

default_window_days == 30

Max(a, b) == IF a >= b THEN a ELSE b

\* The date range of a request: [status, s, e, used_default_window, min, max],
\* status 0 when the range is accepted.  max_days is the bound given to
\* _validate_range.
ResolveRange(c, req, max_days) ==
    LET av == _infer_available_date_range(c)
        given == req.start_date # "" /\ req.end_date # ""
        s == IF given THEN fromisoformat(req.start_date)
             ELSE Max(av.min, av.max - (default_window_days - 1))
        e == IF given THEN fromisoformat(req.end_date) ELSE av.max
        r == [status |-> 0, s |-> s, e |-> e, used_default_window |-> ~given,
              min |-> av.min, max |-> av.max]
    IN  IF ~given /\ (req.start_date # "" \/ req.end_date # "")
        THEN [status |-> 400, s |-> 0, e |-> 0, used_default_window |-> FALSE,
              min |-> 0, max |-> 0]
        ELSE IF ~given /\ av.status # 0
        THEN [status |-> av.status, s |-> 0, e |-> 0, used_default_window |-> TRUE,
              min |-> 0, max |-> 0]
        ELSE [r EXCEPT !.status = _validate_range(s, e, max_days)]

\* ---------------------------------------------------------------- results
\* get_describe_stats after _load_trains_df returned df: [status, payload].
\* The payload holds the headline count (<<>> for None), the dates and, for
\* the describe table, the number of rows described.
DescribeOf(df, range) ==
    IF df.cols \cap {"stop_number", "arrival_delay", "departure_delay", "crowding"} = {}
    THEN [status |-> 404, payload |-> <<>>]
    ELSE [status |-> 200,
          payload |->
            [available_min_date |-> IF range.used_default_window THEN <<range.min>> ELSE <<>>,
             available_max_date |-> IF range.used_default_window THEN <<range.max>> ELSE <<>>,
             used_default_window |-> range.used_default_window,
             start_date |-> range.s,
             end_date |-> range.e,
             count |-> IF "train_hash" \in df.cols
                       THEN <<Cardinality({df.rows[i].train_hash : i \in 1..Len(df.rows)}
                                           \ {""})>>
                       ELSE <<>>,
             describe |-> Len(df.rows)]]

\* get_day_train_count after _load_trains_df returned df: [status, grouped],
\* grouped the number of distinct trips of every (day, client_code).
DayTrainCountOf(df, range) ==
    LET day(r) == IF "day" \in df.cols THEN fromisoformat(r.day) ELSE range.s
        client(r) == IF "client_code" \in df.cols THEN r.client_code ELSE "unknown"
        rows == {df.rows[i] : i \in 1..Len(df.rows)}
        groups == {<<day(r), client(r)>> : r \in {x \in rows : x.train_hash # ""}}
    IN  IF df.rows = <<>> THEN [status |-> 404, grouped |-> {}]
        ELSE IF "train_hash" \notin df.cols THEN [status |-> 500, grouped |-> {}]
        ELSE [status |-> 200,
              grouped |-> {[day |-> g[1], client_code |-> g[2],
                            train_count |-> Cardinality({r.train_hash : r \in
                                {x \in rows : x.train_hash # "" /\ <<day(x), client(x)>> = g}})] :
                           g \in groups}]

\* json.dump(payload, f) and json.load(f): the text is the list of the
\* members in the order of the dict, None written as null, numbers and
\* booleans as they are; loading builds the dict of the members.
json_dump(payload) ==
    << <<"available_min_date", payload.available_min_date>>,
       <<"available_max_date", payload.available_max_date>>,
       <<"used_default_window", payload.used_default_window>>,
       <<"start_date", payload.start_date>>,
       <<"end_date", payload.end_date>>,
       <<"count", payload.count>>,
       <<"describe", payload.describe>> >>

json_load(text) ==
    [available_min_date |-> text[1][2], available_max_date |-> text[2][2],
     used_default_window |-> text[3][2], start_date |-> text[4][2],
     end_date |-> text[5][2], count |-> text[6][2], describe |-> text[7][2]]

\* ------------------------------------------------------- the result cache
\* The files of outputs/runtime, each [name, body]; none when the directory
\* does not exist.
RuntimeFiles(c) ==
    IF c.outputs # <<>> /\ c.outputs[1].runtime THEN c.outputs[1].files ELSE {}

\* (not recompute) and cache file.exists()
NeverCached(recompute, files, name) == FALSE

CacheHit(recompute, files, name) == ~recompute /\ \E f \in files : f.name = name

\* open(cache_json, "w") / plt.savefig(out_png): raises when outputs/runtime
\* does not exist; else the file is created or overwritten.
WriteRaises(c) == c.outputs = <<>> \/ ~c.outputs[1].runtime

WriteCacheFile(c, name, body) ==
    [c EXCEPT !.outputs[1].files =
        {f \in @ : f.name # name} \cup {[name |-> name, body |-> body]}]

\* The response of an aggregator and what it did: the status, the body
\* (<<>> with an error), whether the cache file was served, whether
\* _load_trains_df was called and returned, the columns and the number of
\* rows of the table it returned, the status of the computation (0 when
\* there was none), the data directory and the station cache afterwards.
Answer(status, body, hit, loaded, df, computed, c, cache) ==
    [status |-> status, body |-> body, hit |-> hit, loaded |-> loaded,
     df_cols |-> df.cols, df_rows |-> Len(df.rows), computed |-> computed,
     cur |-> c, cache |-> cache]

NoDf == [cols |-> {}, rows |-> <<>>]

\* The body that names a drawn file.
FileBody(name) == [file_path |-> <<"files", "runtime", name>>, filename |-> name]

\* What an aggregator computes from df: the set of [status, artifact], the
\* artifact being the content of the file to store.
Compute(kind, df, range) ==
    CASE kind = "describe" ->
           LET d == DescribeOf(df, range)
           IN  {[status |-> d.status,
                 artifact |-> IF d.status = 200 THEN json_dump(d.payload) ELSE <<>>]}
      [] kind = "delay_boxplot" ->
           {[status |-> r.status, artifact |-> r.per_train] : r \in DelayBoxplotOf(df)}
      [] OTHER ->
           LET g == DayTrainCountOf(df, range)
           IN  {[status |-> g.status, artifact |-> g.grouped]}

\* get_describe_stats, get_delay_boxplot and get_day_train_count: the date
\* range, the cache file, _load_trains_df, the computation and the write of
\* the artifact.  The set of the possible answers.
Aggregate(kind, c, cache, req) ==
    LET range == ResolveRange(c, req, IF kind = "describe" THEN 366 ELSE MAX_RANGE_DAYS)
        name == CacheFileName(kind, range.s, range.e, <<>>, <<>>, req.station_query)
        files == RuntimeFiles(c)
        tables == _list_train_csv_files(c, range.s, range.e)
        l0 == _load_trains_df(tables, <<>>, <<>>, req.station_query, NoStationsIndex)
        cache1 == IF l0.status = 0 THEN _load_stations_index(c, cache) ELSE cache
        l == _load_trains_df(tables, <<>>, <<>>, req.station_query,
                             StationsIndexOf(c, cache1))
    IN  IF range.status # 0
        THEN {Answer(range.status, <<>>, FALSE, FALSE, NoDf, 0, c, cache)}
        ELSE IF CacheHit(req.recompute, files, name)
        THEN LET f == CHOOSE x \in files : x.name = name
             IN  {Answer(200, IF kind = "describe" THEN json_load(f.body) ELSE FileBody(name),
                         TRUE, FALSE, NoDf, 0, c, cache)}
        ELSE IF l.status # 0
        THEN {Answer(l.status, <<>>, FALSE, FALSE, NoDf, 0, c, cache)}
        ELSE { IF r.status # 200
               THEN Answer(r.status, <<>>, FALSE, TRUE, l.df, r.status, c, cache1)
               ELSE IF WriteRaises(c)
               THEN Answer(500, <<>>, FALSE, TRUE, l.df, r.status, c, cache1)
               ELSE Answer(200,
                           IF kind = "describe" THEN json_load(r.artifact) ELSE FileBody(name),
                           FALSE, TRUE, l.df, r.status, WriteCacheFile(c, name, r.artifact), cache1)
               : r \in Compute(kind, l.df, range) }

\* The requests a client sends for the dataset c: without dates or with the
\* first and the last date folder of c, with and without a station query that
\* matches no station, with and without recompute.
FullRange(c) ==
    LET names == {d \in DateNames : c.days[d] # <<>>}
    IN  {<<a, b>> \in names \X names :
            \A d \in names : fromisoformat(a) <= fromisoformat(d)
                             /\ fromisoformat(d) <= fromisoformat(b)}

StatRequests(c) ==
    {StatRequest(r[1], r[2], q, rc) :
        r \in {<<"", "">>} \cup FullRange(c), q \in {"", "zzz"}, rc \in BOOLEAN}

\* A request to the aggregator kind and its answer.
Stat(kind) ==
    /\ \E req \in StatRequests(cur) :
       \E a \in Aggregate(kind, cur, stationsCache, req) :
         /\ cur' = a.cur
         /\ stationsCache' = a.cache
         /\ resp' = [kind |-> kind, req |-> req, status |-> a.status, body |-> a.body,
                     hit |-> a.hit, loaded |-> a.loaded, df_cols |-> a.df_cols,
                     df_rows |-> a.df_rows, computed |-> a.computed]
         /\ RecordRequest(kind, "", NoRequest, a.status, "", NotCalled)
         /\ UNCHANGED <<now, archives, aroot, dflt, task>>

\* GET /stats/describe
Describe ==
    /\ nops < MaxOps
    /\ Stat("describe")

\* GET /stats/delay-boxplot, no delay_boxplot_*.png lying in outputs/ itself.
DelayBoxplot ==
    /\ nops < MaxOps
    /\ Stat("delay_boxplot")

\* GET /stats/day-train-count
DayTrainCount ==
    /\ nops < MaxOps
    /\ Stat("day_train_count")

\* Zip archives of datasets, uploaded with precompute=false.
ZipFar == << <<"2023-08-15", "trains.csv">>, <<"2024-08-16", "trains.csv">>,
             <<"stations.csv">> >>

ZipConsecutive == << <<"2024-08-16", "trains.csv">>, <<"2024-08-17", "trains.csv">>,
                     <<"stations.csv">> >>

DatasetUploads ==
    { UploadRequest("zip", UploadFile("upload.zip", ZipOneDay, 11), <<>>, <<>>, NoFile, NoFile, "", 11),
      UploadRequest("zip", UploadFile("upload.zip", ZipOneDay, 12), <<>>, <<>>, NoFile, NoFile, "", 12),
      UploadRequest("zip", UploadFile("upload.zip", ZipOneDay, 13), <<>>, <<>>, NoFile, NoFile, "", 13),
      UploadRequest("zip", UploadFile("upload.zip", ZipFar, 15), <<>>, <<>>, NoFile, NoFile, "", 15),
      UploadRequest("zip", UploadFile("upload.zip", ZipConsecutive, 16), <<>>, <<>>, NoFile, NoFile, "", 16) }

\* POST /data/upload of a dataset
UploadDataset ==
    /\ nops < MaxOps
    /\ \E req \in DatasetUploads, t \in ClockReadings :
       \E o \in upload_data(req, Outcome(cur, archives, aroot, stationsCache, 0, ""),
                            t, nops + 1) :
         /\ dflt' = _ensure_default_dataset(cur, dflt)
         /\ cur' = o.cur
         /\ archives' = o.archives
         /\ aroot' = o.aroot
         /\ stationsCache' = o.cache
         /\ now' = IF o.archived # NotCalled THEN t ELSE now
         /\ resp' = [kind |-> "upload", status |-> o.status]
         /\ RecordRequest("upload", req.upload_mode, req, o.status, o.ret, o.archived)
         /\ UNCHANGED task

StatsInit ==
    /\ now = 0
    /\ resp = NoResponse
    /\ cur = [SeedDataset EXCEPT !.outputs = MkRuntimeDir(<<>>)]
    /\ archives = <<>>
    /\ aroot = FALSE
    /\ dflt = <<>>
    /\ stationsCache = NoCache
    /\ nops = 0
    /\ last = [op |-> "init", arg |-> "", req |-> NoRequest, status |-> 0, ret |-> "",
               archived |-> NotCalled, pre |-> Snapshot]
    /\ prev = NoRestore
    /\ fnIn = NoCall
    /\ fnOut = NoResult
    /\ task = NoTask

StatsNext ==
    \/ Describe
    \/ DelayBoxplot
    \/ DayTrainCount
    \/ UploadDataset
    \/ Restore
    \/ Apply
    \/ Delete

StatsSpec == StatsInit /\ [][StatsNext]_vars

\* --------------------------------------------------------------- FnSpec
\* The file tree is the one at start-up and stays as it is.
FnInit ==
    /\ now = 0
    /\ resp = NoResponse
    /\ cur = [SeedDataset EXCEPT !.outputs = MkRuntimeDir(<<>>)]
    /\ archives = <<>>
    /\ aroot = FALSE
    /\ dflt = <<>>
    /\ stationsCache = NoCache
    /\ nops = 0
    /\ last = [op |-> "init", arg |-> "", req |-> NoRequest, status |-> 0, ret |-> "",
               archived |-> NotCalled, pre |-> Snapshot]
    /\ prev = NoRestore
    /\ \/ fnIn \in ZipInputs
       \/ fnIn \in KeyInputs
       \/ fnIn \in RangeInputs
       \/ fnIn \in TerminalInputs
       \/ fnIn \in FilterInputs
    /\ fnOut = NoResult
    /\ task = NoTask

FnNext ==
    \/ SafeExtractZip
    \/ CacheKey
    \/ ValidateRange
    \/ DelayBoxplotLast
    \/ LoadTrainsDf

FnSpec == FnInit /\ [][FnNext]_vars

\* ============================================= the row loader on its own
\* ------------------------------------------- partitions of unlike columns
\* Two day-partitions: the trains.csv of the first has both phantom columns,
\* the trains.csv of the second lacks the columns in lacking; every flag
\* cell is True or False.
FlagPartition(ph, tph) ==
    [cols |-> usecols \ {"crowding"},
     rows |-> << StopRow("a1", <<1>>, <<1>>, <<1>>, "2024-08-16", "S01700", "A", ph, tph),
                 StopRow("a2", <<1>>, <<2>>, <<2>>, "2024-08-16", "S01700", "A", "False", "False") >>]

PlainPartition(lacking, ph, tph) ==
    [cols |-> usecols \ ({"crowding"} \cup lacking),
     rows |-> << StopRow("b1", <<1>>, <<3>>, <<3>>, "2024-08-17", "S01301", "B", ph, tph) >>]

BoolCells == {"True", "False"}

PartitionInputs ==
    {[fn |-> "partitions", first |-> FlagPartition(p[1], p[2]),
      second |-> PlainPartition(l, p[3], p[4]), lacking |-> l] :
        p \in BoolCells \X BoolCells \X BoolCells \X BoolCells,
        l \in {{"phantom"}, {"trenord_phantom"}, {"phantom", "trenord_phantom"}}}

\* _load_trains_df without filters over the two partitions, in date order.
LoadPartitions ==
    /\ fnIn.fn = "partitions" /\ ~fnOut.done
    /\ LET l == _load_trains_df(<<fnIn.first, fnIn.second>>, <<>>, <<>>, "", NoStationsIndex)
       IN  fnOut' = [done |-> TRUE, status |-> l.status, df |-> l.df]
    /\ UNCHANGED <<now, cur, archives, aroot, dflt, stationsCache, nops, last, prev, fnIn, resp,
                   task>>

\* ------------------------------------------------------- _read_csv_rows
\* The file is read in blocks, a block being what one read of the buffered
\* text file decodes; here a block holds one row (rows after the header line),
\* and the kind of a block tells its bytes: "ascii"; "utf8", a u-grave written
\* as the two bytes C3 B9; "cp1252", a u-grave written as the byte F9; "x81",
\* the byte 81 that Windows-1252 does not define.
encodings == <<"utf-8-sig", "utf-8", "cp1252", "latin-1">>

ByteKinds == {"ascii", "utf8", "cp1252", "x81"}

\* The decoder of enc raises UnicodeDecodeError on a block of this kind.
DecodeRaises(enc, kind) ==
    CASE enc \in {"utf-8-sig", "utf-8"} -> kind \in {"cp1252", "x81"}
      [] enc = "cp1252" -> kind = "x81"
      [] OTHER -> FALSE

\* The text the decoder of enc gives for the name cell of a block.
Decode(enc, kind) ==
    CASE kind = "ascii" -> "u"
      [] kind = "utf8" -> IF enc \in {"utf-8-sig", "utf-8"} THEN "u-grave" ELSE "A-tilde superscript-1"
      [] kind = "cp1252" -> "u-grave"
      [] OTHER -> "U+0081"

MaxBlocks == 3

CsvFiles == UNION {[1..n -> ByteKinds] : n \in 1..MaxBlocks}

\* One pass of the loop body with the encoding enc: the rows yielded before
\* the first block that does not decode, and whether the file ended.
ReadAttempt(file, enc) ==
    LET bad == {k \in 1..Len(file) : DecodeRaises(enc, file[k])}
        stop == IF bad = {} THEN Len(file) + 1 ELSE CHOOSE k \in bad : \A j \in bad : k <= j
    IN  [rows |-> [k \in 1..(stop - 1) |-> [code |-> k, name |-> Decode(enc, file[k])]],
         ended |-> bad = {}]

\* _read_csv_rows: the rows the generator yields, encoding i onwards;
\* [rows, raised].
RECURSIVE ReadFrom(_, _)
ReadFrom(file, i) ==
    IF i > Len(encodings) THEN [rows |-> <<>>, raised |-> TRUE]
    ELSE LET a == ReadAttempt(file, encodings[i])
         IN  IF a.ended THEN [rows |-> a.rows, raised |-> FALSE]
             ELSE LET rest == ReadFrom(file, i + 1)
                  IN  [rows |-> a.rows \o rest.rows, raised |-> rest.raised]

_read_csv_rows(file) == ReadFrom(file, 1)

CsvInputs == {[fn |-> "_read_csv_rows", file |-> f] : f \in CsvFiles}

ReadCsvRows ==
    /\ fnIn.fn = "_read_csv_rows" /\ ~fnOut.done
    /\ LET r == _read_csv_rows(fnIn.file)
       IN  fnOut' = [done |-> TRUE, rows |-> r.rows, raised |-> r.raised]
    /\ UNCHANGED <<now, cur, archives, aroot, dflt, stationsCache, nops, last, prev, fnIn, resp,
                   task>>

\* ------------------------------------------------ _list_train_csv_files
\* The names of the entries of the data directory, in the order sorted()
\* gives their paths ("-" sorts before "0").  date.fromisoformat takes the
\* basic format YYYYMMDD as well (Python 3.11 and later); "notes" and
\* "2024-8-16" are no dates.
EntryNames == <<"2024-08-16", "2024-08-17", "2024-8-16", "20240101", "notes">>

\* try: date.fromisoformat(d.name) except: continue -- <<day>>, <<>> when it
\* raises.
TryIsoDate(name) ==
    IF name \in {"2024-08-16", "2024-08-17", "20240101"} THEN <<fromisoformat(name)>> ELSE <<>>

\* An entry of the data directory: "none" (no such entry), "file", "dir" (a
\* folder without trains.csv) or "trains" (a folder with trains.csv).
EntryKinds == {"none", "file", "dir", "trains"}

DataDirs ==
    {d \in [1..Len(EntryNames) -> EntryKinds] : d[3] \in {"none", "trains"}}

\* _list_train_csv_files(s, e) on the data directory dir: [status, files],
\* files the names of the folders whose trains.csv is listed, in the order
\* of the list.
ListTrainCsvFiles(dir, s, e) ==
    LET picked == SelectSeq([i \in 1..Len(EntryNames) |-> i], LAMBDA i :
                      /\ dir[i] \in {"dir", "trains"}
                      /\ TryIsoDate(EntryNames[i]) # <<>>
                      /\ s <= TryIsoDate(EntryNames[i])[1]
                      /\ TryIsoDate(EntryNames[i])[1] <= e
                      /\ dir[i] = "trains")
        files == [k \in 1..Len(picked) |-> EntryNames[picked[k]]]
    IN  IF files = <<>> THEN [status |-> 404, files |-> <<>>]
        ELSE [status |-> 0, files |-> files]

RangeBounds == {<<0, 368>>, <<139, 367>>, <<367, 367>>, <<368, 368>>, <<140, 366>>}

ListInputs ==
    {[fn |-> "_list_train_csv_files", dir |-> d, s |-> r[1], e |-> r[2]] :
        d \in DataDirs, r \in RangeBounds}

ListTrainCsv ==
    /\ fnIn.fn = "_list_train_csv_files" /\ ~fnOut.done
    /\ LET r == ListTrainCsvFiles(fnIn.dir, fnIn.s, fnIn.e)
       IN  fnOut' = [done |-> TRUE, status |-> r.status, files |-> r.files]
    /\ UNCHANGED <<now, cur, archives, aroot, dflt, stationsCache, nops, last, prev, fnIn, resp,
                   task>>

\* ------------------------------------------------ _pick_precompute_range
\* The dates of the dated folders, as day numbers: what
\* _infer_available_date_range collects.
FolderDays == {0, 1, 364, 365, 366, 367}

DateSets == (SUBSET FolderDays) \ {{}}

\* PickWithoutClamp is the variant that never clamps.
PickWithoutClamp(dates) ==
    LET min_d == CHOOSE a \in dates : \A b \in dates : a <= b
        max_d == CHOOSE a \in dates : \A b \in dates : b <= a
    IN  [start |-> min_d, end |-> max_d, clamped |-> FALSE]

\* _pick_precompute_range, dates being the dates of the dated folders:
\* [start, end, clamped].
_pick_precompute_range(dates) ==
    LET min_d == CHOOSE a \in dates : \A b \in dates : a <= b
        max_d == CHOOSE a \in dates : \A b \in dates : b <= a
        total_days == (max_d - min_d) + 1
    IN  IF total_days > MAX_RANGE_DAYS
        THEN [start |-> max_d - (MAX_RANGE_DAYS - 1), end |-> max_d, clamped |-> TRUE]
        ELSE [start |-> min_d, end |-> max_d, clamped |-> FALSE]

PickInputs == {[fn |-> "_pick_precompute_range", dates |-> d] : d \in DateSets}

PickPrecomputeRange ==
    /\ fnIn.fn = "_pick_precompute_range" /\ ~fnOut.done
    /\ LET r == _pick_precompute_range(fnIn.dates)
       IN  fnOut' = [done |-> TRUE, start |-> r.start, end |-> r.end, clamped |-> r.clamped]
    /\ UNCHANGED <<now, cur, archives, aroot, dflt, stationsCache, nops, last, prev, fnIn, resp,
                   task>>

\* ------------------------------------------- two requests and their keys
\* The filter parameters of a request: railway_companies and regions as the
\* pieces between the commas, station_query as given.
QueryParams ==
    [railway_companies : {<<>>, <<"A">>},
     regions : {<<>>, <<"Lombardia">>, <<" Lombardia">>},
     station_query : {"", " ", "torino", "mil"}]

QueryPairs == {[fn |-> "two_requests", p |-> p, q |-> q] : p \in QueryParams, q \in QueryParams}

\* What a request to get_describe_stats with the parameters p over one
\* partition gives: the name of its cache file and the table
\* _load_trains_df returns.
KeyAndTable(p) ==
    [key |-> CacheFileName("describe", 367, 367, p.railway_companies, p.regions,
                           p.station_query),
     df |-> _load_trains_df(<<[cols |-> usecols \ {"crowding"}, rows |-> FilterTable]>>,
                            _parse_csv_list(p.railway_companies),
                            _parse_csv_list(p.regions), p.station_query,
                            BuildStationsIndex(StationRows)).df]

TwoRequests ==
    /\ fnIn.fn = "two_requests" /\ ~fnOut.done
    /\ fnOut' = [done |-> TRUE, first |-> KeyAndTable(fnIn.p), second |-> KeyAndTable(fnIn.q)]
    /\ UNCHANGED <<now, cur, archives, aroot, dflt, stationsCache, nops, last, prev, fnIn, resp,
                   task>>

LoaderInit ==
    /\ now = 0
    /\ resp = NoResponse
    /\ cur = [SeedDataset EXCEPT !.outputs = MkRuntimeDir(<<>>)]
    /\ archives = <<>>
    /\ aroot = FALSE
    /\ dflt = <<>>
    /\ stationsCache = NoCache
    /\ nops = 0
    /\ last = [op |-> "init", arg |-> "", req |-> NoRequest, status |-> 0, ret |-> "",
               archived |-> NotCalled, pre |-> Snapshot]
    /\ prev = NoRestore
    /\ \/ fnIn \in PartitionInputs
       \/ fnIn \in CsvInputs
       \/ fnIn \in ListInputs
       \/ fnIn \in PickInputs
       \/ fnIn \in QueryPairs
    /\ fnOut = NoResult
    /\ task = NoTask

LoaderNext ==
    \/ LoadPartitions
    \/ ReadCsvRows
    \/ ListTrainCsv
    \/ PickPrecomputeRange
    \/ TwoRequests

LoaderSpec == LoaderInit /\ [][LoaderNext]_vars

\* ========================================= the background recomputation
\* The aggregators _precompute_default_outputs calls, in its order.
TaskKinds == <<"describe", "delay_boxplot", "day_train_count">>

\* The day numbers of the date folders of c, which
\* _infer_available_date_range takes the minimum and the maximum of.
DatasetDays(c) == {fromisoformat(d) : d \in {x \in DateNames : c.days[x] # <<>>}}

\* Zip archives of datasets, uploaded with precompute=true (the default).
PrecomputeUploads ==
    { UploadRequest("zip", UploadFile("upload.zip", ZipOneDay, 11), <<>>, <<>>, NoFile, NoFile, "", 11),
      UploadRequest("zip", UploadFile("upload.zip", ZipFar, 15), <<>>, <<>>, NoFile, NoFile, "", 15),
      UploadRequest("zip", UploadFile("upload.zip", ZipConsecutive, 16), <<>>, <<>>, NoFile, NoFile, "", 16) }

\* background_tasks.add_task(_precompute_default_outputs): the task waits to
\* run; reported is the precompute_range of the upload response.  The locals
\* of the task: range is what its own _pick_precompute_range returned, kind
\* the aggregator it is in, tables the day-partitions that aggregator read,
\* artifact what it computed from them; stored tells of the artifact written
\* last: its aggregator, its range, the partitions it was computed from and
\* the partitions of that range in the dataset current at the write.
Scheduled(reported) ==
    [pc |-> "scheduled", reported |-> reported, range |-> <<>>, kind |-> 0,
     tables |-> <<>>, artifact |-> <<>>, stored |-> <<>>]

\* POST /data/upload of a dataset with precompute=true: the dataset is
\* installed, then _pick_precompute_range reads the installed date folders
\* (404 when there is none) and the task is added.  One task at a time: the
\* request is sent when no task is waiting or running.
UploadPrecompute ==
    /\ nops < MaxOps
    /\ task.pc \in {"none", "done", "failed"}
    /\ \E req \in PrecomputeUploads, t \in ClockReadings :
       \E o \in upload_data(req, Outcome(cur, archives, aroot, stationsCache, 0, ""),
                            t, nops + 1) :
         LET dates == DatasetDays(o.cur)
             added == o.status = 200 /\ dates # {}
             status == IF o.status = 200 /\ dates = {} THEN 404 ELSE o.status
         IN  /\ dflt' = _ensure_default_dataset(cur, dflt)
             /\ cur' = o.cur
             /\ archives' = o.archives
             /\ aroot' = o.aroot
             /\ stationsCache' = o.cache
             /\ now' = IF o.archived # NotCalled THEN t ELSE now
             /\ resp' = [kind |-> "upload", status |-> status,
                         precompute_range |-> IF added THEN <<_pick_precompute_range(dates)>>
                                              ELSE <<>>]
             /\ RecordRequest("upload", req.upload_mode, req, status, o.ret, o.archived)
             /\ task' = IF added THEN Scheduled(_pick_precompute_range(dates)) ELSE task

\* An exception leaves _precompute_default_outputs.
Failed(t) == [t EXCEPT !.pc = "failed", !.tables = <<>>, !.artifact = <<>>]

\* _precompute_default_outputs, its first line: _pick_precompute_range()
\* reads the date folders of the dataset that is current now.
TaskStart ==
    /\ task.pc = "scheduled"
    /\ LET dates == DatasetDays(cur)
       IN  task' = IF dates = {} THEN Failed(task)
                   ELSE [task EXCEPT !.pc = "load", !.kind = 1,
                                     !.range = <<_pick_precompute_range(dates)>>]
    /\ UNCHANGED <<now, cur, archives, aroot, dflt, stationsCache, nops, last, prev, fnIn,
                   fnOut, resp>>

\* The aggregator of the task, called with start_date, end_date and
\* recompute=True, up to the computation of its artifact: the dates are
\* parsed back (isoformat and fromisoformat of a date are inverse), the range
\* is validated, the cache file is not looked at, the day-partitions of the
\* current dataset are read and the artifact is computed.
TaskLoad ==
    /\ task.pc = "load"
    /\ LET kind == TaskKinds[task.kind]
           r == task.range[1]
           status == _validate_range(r.start, r.end,
                                     IF kind = "describe" THEN 366 ELSE MAX_RANGE_DAYS)
           range == [status |-> status, s |-> r.start, e |-> r.end,
                     used_default_window |-> FALSE, min |-> 0, max |-> 0]
           tables == _list_train_csv_files(cur, r.start, r.end)
           l0 == _load_trains_df(tables, <<>>, <<>>, "", NoStationsIndex)
           cache1 == IF l0.status = 0 THEN _load_stations_index(cur, stationsCache)
                     ELSE stationsCache
           l == _load_trains_df(tables, <<>>, <<>>, "", StationsIndexOf(cur, cache1))
       IN  IF status # 0
           THEN task' = Failed(task) /\ UNCHANGED stationsCache
           ELSE IF l.status # 0
           THEN task' = Failed(task) /\ UNCHANGED stationsCache
           ELSE \E c \in Compute(kind, l.df, range) :
                  /\ task' = IF c.status # 200 THEN Failed(task)
                             ELSE [task EXCEPT !.pc = "store", !.tables = tables,
                                               !.artifact = c.artifact]
                  /\ stationsCache' = cache1
    /\ UNCHANGED <<now, cur, archives, aroot, dflt, nops, last, prev, fnIn, fnOut, resp>>

\* The aggregator of the task, the write of its artifact into outputs/runtime
\* of the dataset that is current now, and its return; after the third
\* aggregator the task ends.
TaskStore ==
    /\ task.pc = "store"
    /\ LET kind == TaskKinds[task.kind]
           r == task.range[1]
           name == CacheFileName(kind, r.start, r.end, <<>>, <<>>, "")
       IN  IF WriteRaises(cur)
           THEN task' = Failed(task) /\ UNCHANGED cur
           ELSE /\ cur' = WriteCacheFile(cur, name, task.artifact)
                /\ task' = [task EXCEPT
                              !.pc = IF task.kind = Len(TaskKinds) THEN "done" ELSE "load",
                              !.kind = IF task.kind = Len(TaskKinds) THEN 0 ELSE task.kind + 1,
                              !.tables = <<>>,
                              !.artifact = <<>>,
                              !.stored = <<[kind |-> kind, range |-> r, tables |-> task.tables,
                                            current |-> _list_train_csv_files(cur, r.start, r.end)]>>]
    /\ UNCHANGED <<now, archives, aroot, dflt, stationsCache, nops, last, prev, fnIn, fnOut,
                   resp>>

\* The task runs in a worker thread while the server answers the requests
\* that replace the dataset.
TaskNext ==
    \/ UploadPrecompute
    \/ TaskStart
    \/ TaskLoad
    \/ TaskStore
    \/ UploadDataset
    \/ Restore
    \/ Apply
    \/ ClearArchives

TaskSpec == StatsInit /\ [][TaskNext]_vars

\* =============================================================== claims
pre == last.pre

\* The part of a directory a dataset consists of: day-partitions, stations
\* files, metadata and outputs.
SameDataset(a, b) ==
    a.days = b.days /\ a.st = b.st /\ a.meta = b.meta /\ a.outputs = b.outputs

FileTreeUnchanged ==
    /\ cur = pre.cur
    /\ archives = pre.archives
    /\ aroot = pre.aroot
    /\ dflt = pre.dflt

\* C1: whenever upload_data rejects a request with a validation failure (400),
\* the current dataset and the set of archives are what they were before the
\* request.
C1_UploadRejectionAtomic ==
    (last.op = "upload" /\ last.status = 400)
        => (SameDataset(cur, pre.cur) /\ archives = pre.archives)

\* C2: delete_archive removes exactly the archive named by stamp: _default and
\* the current dataset are unchanged and every other archive still exists,
\* whatever the stamp; the sentinels get 400 and an unknown stamp 404.
C2_DeleteRemovesOnlyNamedArchive ==
    last.op = "delete" =>
        /\ dflt = pre.dflt
        /\ SameDataset(cur, pre.cur)
        /\ \A s \in DOMAIN pre.archives \ {last.arg} :
              s \in DOMAIN archives /\ archives[s] = pre.archives[s]
        /\ last.arg \in {DEFAULT_ARCHIVE_STAMP, CURRENT_ARCHIVE_STAMP} => last.status = 400
        /\ last.arg = UnknownStamp => last.status = 404

\* The target of the last restore as it was before the request (_default is
\* populated before the target is read only when it had no content, and then
\* it is no target).
TargetBefore == TargetDir(last.ret, pre.archives, pre.dflt)

\* C3: after a successful restore the current dataset is exactly the target
\* archive, the previous current dataset exists as a new archive, the target
\* archive is unchanged and the station index cache is reset.
C3_RestoreMakesCurrentTheTarget ==
    (last.op = "restore" /\ last.status = 200) =>
        /\ SameDataset(cur, TargetBefore)
        /\ TargetDir(last.ret, archives, dflt) = TargetBefore
        /\ pre.cur # EmptyDir =>
              \E s \in DOMAIN archives \ DOMAIN pre.archives :
                  SameDataset(archives[s], pre.cur)
        /\ stationsCache = NoCache

\* C4: restore(A) of an archive A followed by restore(latest) gives back the
\* dataset that was current before the first restore.
C4_RestoreIsReversible ==
    (/\ prev.restored /\ prev.arg # DEFAULT_ARCHIVE_STAMP
     /\ last.op = "restore" /\ last.arg = "" /\ last.status = 200)
        => SameDataset(cur, prev.cur)

\* The stamps that name neither a sentinel nor an archive nor a relative path.
IsUnknownStamp(stamp) ==
    /\ stamp \notin {DEFAULT_ARCHIVE_STAMP, CURRENT_ARCHIVE_STAMP}
    /\ stamp \notin DOMAIN pre.archives

C6_ClearArchivesKeepsCurrent ==
    last.op = "clear" => SameDataset(cur, pre.cur)

\* C7: once _default has content, no request changes its contents.
C7_DefaultNeverOverwritten ==
    _dataset_has_content(pre.dflt) => dflt = pre.dflt

\* The files a successful zip or folder upload put into the temporary
\* directory, and the datasets _copy_dataset_into_webapp can install from them.
UploadedFiles(req) ==
    IF req.file # <<>> THEN _safe_extract_zip(req.file[1].entries).files
    ELSE _write_upload_files(req.files, req.paths).files

UploadedDays(req) ==
    {RootDays(UploadedFiles(req), root, req.tag) : root \in _find_dataset_root(UploadedFiles(req))}

\* C8: after a successful zip or folder upload the day-partitions and stations
\* files that were current are in the archive named by archived_stamp and no
\* longer in current (the current day-partitions are exactly the date folders
\* of the uploaded dataset root, a current stations file is a newly written
\* one).
C8_UploadMovesCurrentIntoArchive ==
    (last.op = "upload" /\ last.status = 200 /\ last.arg \in {"zip", "folder", ""}) =>
        /\ cur.days \in UploadedDays(last.req)
        /\ \A d \in DateNames : pre.cur.days[d] # <<>> =>
              /\ last.ret \in DOMAIN archives
              /\ archives[last.ret].days[d] = pre.cur.days[d]
        /\ \A f \in StationFileNames : pre.cur.st[f] # <<>> =>
              /\ last.ret \in DOMAIN archives
              /\ archives[last.ret].st[f] = pre.cur.st[f]
              /\ cur.st[f] # pre.cur.st[f]

\* The last request called _archive_existing_dataset and the call returned.
ArchiveReturned == last.archived \notin {NotCalled, Raised}

\* C9: _archive_existing_dataset returns None and creates no archive directory
\* when the data directory holds no stations file, no day-partition and no
\* metadata file.
C9_ArchiveOfEmptyDatasetIsNone ==
    (ArchiveReturned /\ LoopItems(pre.cur) = {})
        => (last.archived = "" /\ DOMAIN archives = DOMAIN pre.archives)

\* C10: every call of _archive_existing_dataset that archives something writes
\* into an archive directory that did not exist before the call.
C10_ArchiveDirectoryIsFresh ==
    (ArchiveReturned /\ last.archived # "") => last.archived \notin DOMAIN pre.archives

\* C11: when _safe_extract_zip raises, no file of the archive has been written
\* to the extraction directory, wherever the offending entry is.
C11_RejectedZipExtractsNothing ==
    (fnIn.fn = "_safe_extract_zip" /\ fnOut.done /\ fnOut.err) => fnOut.files = {}

\* Two lists with the same elements in a different order.
Reordered(a, b) ==
    /\ a # b
    /\ Len(a) = Len(b)
    /\ \A x \in {a[i] : i \in 1..Len(a)} \cup {b[i] : i \in 1..Len(b)} :
          Cardinality({i \in 1..Len(a) : a[i] = x}) = Cardinality({i \in 1..Len(b) : b[i] = x})

\* C12: two requests with the same dates and station query whose company or
\* region lists hold the same elements in a different order have the same
\* cache key.
C12_CacheKeyIgnoresListOrder ==
    (/\ fnIn.fn = "cache_key" /\ fnOut.done
     /\ fnIn.p.station_query = fnIn.q.station_query
     /\ \/ /\ Reordered(_parse_csv_list(fnIn.p.railway_companies),
                        _parse_csv_list(fnIn.q.railway_companies))
           /\ fnIn.p.regions = fnIn.q.regions
        \/ /\ Reordered(_parse_csv_list(fnIn.p.regions), _parse_csv_list(fnIn.q.regions))
           /\ fnIn.p.railway_companies = fnIn.q.railway_companies)
        => fnOut.key1 = fnOut.key2

\* C17: _validate_range(s, e) returns normally exactly when s <= e and
\* e - s <= 366 days, and raises a 400 error otherwise.
C17_ValidateRangeAcceptsUpTo366Days ==
    (fnIn.fn = "_validate_range" /\ fnOut.done) =>
        /\ (fnIn.s <= fnIn.e /\ fnIn.e <= fnIn.s + 366) => fnOut.status = 0
        /\ (fnIn.e < fnIn.s \/ fnIn.e - fnIn.s > 366) => fnOut.status = 400

\* C17 witness: a range of exactly 366 days was accepted.
C17_Witness ==
    /\ fnIn.fn = "_validate_range" /\ fnOut.done
    /\ fnIn.e - fnIn.s = 366 /\ fnOut.status = 0

\* The rows of the table of the call whose flags are both not true.
NotPhantom(r) == r.phantom # "True" /\ r.trenord_phantom # "True"

\* C19: for each trip of Delay Distribution, the stop chosen is the stop with
\* the maximum stop sequence number among the trip's rows whose phantom and
\* trenord_phantom flags are both not true: the values drawn for the trip are
\* the stop number and the delays of that row.
C19_TerminalStopAfterPhantomExclusion ==
    (fnIn.fn = "get_delay_boxplot" /\ fnOut.done) =>
        LET rows == fnIn.table.rows
            kept == {i \in 1..Len(rows) : NotPhantom(rows[i])}
        IN  \A i \in kept :
              (\A j \in kept : rows[j].stop_number[1] <= rows[i].stop_number[1]) =>
                  /\ fnOut.status = 200
                  /\ fnOut.per_train[rows[i].train_hash] =
                        [stop_number |-> rows[i].stop_number,
                         arrival_delay |-> rows[i].arrival_delay,
                         departure_delay |-> rows[i].departure_delay]

\* The station codes of the index that a list of regions and a station query
\* stand for.
RegionCodeSet(regions) ==
    {st.code : st \in {x \in StationRows :
        /\ x.region # <<>>
        /\ \E i \in 1..Len(regions) :
              lower(strip(regions[i])) = lower(REGION_CODE_TO_NAME[x.region[1]])}}

StationCodeSet(query) ==
    {st.code : st \in {x \in StationRows : Occurs(lower(strip(query)), x)}}

\* C20: with a region filter and a station filter every returned row has a
\* station code in the intersection of the two code sets, no row is returned
\* when they are disjoint, and a filter that resolves to no station code gives
\* zero rows.
C20_RegionAndStationFiltersIntersect ==
    (fnIn.fn = "_load_trains_df" /\ fnOut.done) =>
        LET regions == _parse_csv_list(fnIn.regions)
            rc == RegionCodeSet(regions)
            sc == StationCodeSet(fnIn.station_query)
            rows == fnOut.df.rows
        IN  /\ fnOut.status = 0
            /\ (regions # <<>> /\ fnIn.station_query # "") =>
                  /\ \A i \in 1..Len(rows) : rows[i].stop_station_code \in rc \cap sc
                  /\ rc \cap sc = {} => rows = <<>>
            /\ (regions # <<>> /\ rc = {}) => rows = <<>>
            /\ (fnIn.station_query # "" /\ sc = {}) => rows = <<>>

\* C20 witness: a region filter and a station filter that each match stations
\* of the table and have no station in common gave zero rows.
C20_Witness ==
    /\ fnIn.fn = "_load_trains_df" /\ fnOut.done
    /\ "stop_station_code" \in fnIn.table.cols
    /\ RegionCodeSet(_parse_csv_list(fnIn.regions)) = {"S01700", "S01301"}
    /\ StationCodeSet(fnIn.station_query) = {"S00219"}
    /\ fnOut.df.rows = <<>>

\* The request just answered was sent to an aggregator.
Answered == resp.kind \in AggregatorKinds

\* C15: when an aggregator computed its result (cache miss or recompute=true)
\* and the write of the artifact into outputs/runtime fails, the request
\* still succeeds.
C15_FailedCacheWriteStillAnswers ==
    (Answered /\ resp.computed = 200 /\ WriteRaises(last.pre.cur)) => resp.status = 200

\* C16: an aggregator whose filtered table is empty answers 404 and stores
\* nothing in the cache; one whose table has rows but no train_hash column
\* answers with the missing-column error (500).
C16_AggregatorFailurePolicy ==
    (Answered /\ resp.loaded) =>
        /\ resp.df_rows = 0 =>
              resp.status = 404 /\ RuntimeFiles(cur) = RuntimeFiles(last.pre.cur)
        /\ (resp.df_rows > 0 /\ "train_hash" \notin resp.df_cols) => resp.status = 500

\* The request before the last one was answered by the same aggregator for
\* the same parameters.
SameCallTwice ==
    /\ Answered
    /\ last.pre.resp.kind = resp.kind
    /\ last.pre.resp.req.start_date = resp.req.start_date
    /\ last.pre.resp.req.end_date = resp.req.end_date
    /\ last.pre.resp.req.station_query = resp.req.station_query

\* C13: after a successful call of an aggregator, the next request, when it
\* is a call of the same aggregator with the same parameters and
\* recompute=false, is answered from the stored artifact without loading the
\* dataset, with the body of the first answer, and leaves the artifact as
\* it is.
C13_CachedReadIsIdempotent ==
    (SameCallTwice /\ last.pre.resp.status = 200 /\ ~resp.req.recompute) =>
        /\ resp.status = 200
        /\ resp.hit /\ ~resp.loaded
        /\ resp.body = last.pre.resp.body
        /\ RuntimeFiles(cur) = RuntimeFiles(last.pre.cur)

C13_Witness ==
    /\ SameCallTwice /\ last.pre.resp.status = 200 /\ ~resp.req.recompute
    /\ last.pre.resp.loaded
    /\ resp.kind = "describe"
    /\ resp.body.count = <<2>>

\* The last request was an upload that installed a dataset, a restore or an
\* apply, and it succeeded.
Replaced ==
    /\ last.status = 200
    /\ \/ last.op = "upload" /\ last.archived \notin {NotCalled, Raised}
       \/ last.op \in {"restore", "apply"}

\* C14 as stated: a cache entry stored before an upload, restore or apply is
\* still present after it.
C14_ReplacementKeepsCacheEntries ==
    Replaced => RuntimeFiles(last.pre.cur) \subseteq RuntimeFiles(cur)

\* C14: the result cache is replaced with the dataset.  After an upload that
\* installed a dataset outputs/runtime is empty; after a restore or an apply
\* outputs/ is the outputs/ of the snapshot that was restored, so an entry
\* stored before the operation is served afterwards only if the snapshot
\* holds it.
C14_ReplacementReplacesCache ==
    Replaced =>
        IF last.op = "upload" THEN cur.outputs = FreshOutputs
        ELSE cur.outputs = TargetDir(last.ret, archives, dflt).outputs

C14_Witness ==
    /\ Replaced
    /\ RuntimeFiles(last.pre.cur) # {}
    /\ RuntimeFiles(cur) = {}

\* The rows of every trains.csv of the dataset c.
AllRows(c) ==
    LET tables == _list_train_csv_files(c, 0, 368)
    IN  UNION {{tables[i].rows[j] : j \in 1..Len(tables[i].rows)} : i \in 1..Len(tables)}

\* C18: describe over the full date range of a dataset, right after the
\* upload that installed it, answers 200 with count = the number of distinct
\* trip identifiers among the rows whose phantom flags are not true.
C18_UploadThenDescribe ==
    (/\ resp.kind = "describe"
     /\ last.pre.resp.kind = "upload" /\ last.pre.resp.status = 200
     /\ <<resp.req.start_date, resp.req.end_date>> \in FullRange(last.pre.cur)
     /\ resp.req.station_query = "") =>
        /\ resp.status = 200
        /\ resp.body.count =
             <<Cardinality({r.train_hash : r \in {x \in AllRows(last.pre.cur) : NotPhantom(x)}}
                            \ {""})>>

\* The rows of the loaded table, by trip identifier.
Loaded(h) == \E i \in 1..Len(fnOut.df.rows) : fnOut.df.rows[i].train_hash = h

\* The flag cell of a row of a partition, a column the partition lacks
\* being not applicable.
FlagTrue(table, r, col) ==
    col \in table.cols /\ (IF col = "phantom" THEN r.phantom ELSE r.trenord_phantom) = "True"

KeptByClaim(table, r) ==
    ~FlagTrue(table, r, "phantom") /\ ~FlagTrue(table, r, "trenord_phantom")

\* C24: over two partitions of which the second lacks a phantom column, a
\* row none of whose flags is true, a column its file lacks being not
\* applicable, is in the unified table; so the rows of the partition lacking
\* the column are kept.
C24_MissingPhantomColumnKeepsRows ==
    (fnIn.fn = "partitions" /\ fnOut.done) =>
        /\ fnOut.status = 0
        /\ \A i \in 1..Len(fnIn.first.rows) :
              KeptByClaim(fnIn.first, fnIn.first.rows[i])
                => Loaded(fnIn.first.rows[i].train_hash)
        /\ \A i \in 1..Len(fnIn.second.rows) :
              KeptByClaim(fnIn.second, fnIn.second.rows[i])
                => Loaded(fnIn.second.rows[i].train_hash)

\* The rows _load_trains_df delivers to get_delay_boxplot for the trip table
\* of the call.
BoxplotRows == _load_trains_df(<<fnIn.table>>, <<>>, <<>>, "", NoStationsIndex).df.rows

\* Row i is the terminal stop of its trip among rows: no row of the trip has
\* a larger stop number.
IsTerminal(rows, i) ==
    \A j \in 1..Len(rows) :
        rows[j].train_hash = rows[i].train_hash
          => rows[j].stop_number[1] <= rows[i].stop_number[1]

\* C25: the arrival delay and the departure delay get_delay_boxplot reports
\* for a trip are the cells of one row, the loaded row of the trip with the
\* largest stop number, a null cell of that row being reported as null.
C25_DelaysOfOneTerminalRow ==
    (fnIn.fn = "get_delay_boxplot" /\ fnOut.done /\ fnOut.status = 200) =>
        \A h \in DOMAIN fnOut.per_train :
            \E i \in 1..Len(BoxplotRows) :
                /\ BoxplotRows[i].train_hash = h
                /\ IsTerminal(BoxplotRows, i)
                /\ fnOut.per_train[h].arrival_delay = BoxplotRows[i].arrival_delay
                /\ fnOut.per_train[h].departure_delay = BoxplotRows[i].departure_delay

\* The first encoding of the list that decodes every block of the file.
FirstEncoding(file) ==
    LET good == {i \in 1..Len(encodings) :
                    \A k \in 1..Len(file) : ~DecodeRaises(encodings[i], file[k])}
    IN  encodings[CHOOSE i \in good : \A j \in good : i <= j]

\* C22: _read_csv_rows delivers the rows of the file, each once and in the
\* order of the file, decoded with the first encoding of the list that
\* decodes the whole file.
C22_RowsOnceInFirstEncoding ==
    (fnIn.fn = "_read_csv_rows" /\ fnOut.done) =>
        /\ ~fnOut.raised
        /\ fnOut.rows = [k \in 1..Len(fnIn.file) |->
                            [code |-> k, name |-> Decode(FirstEncoding(fnIn.file), fnIn.file[k])]]

\* The folders of the call's data directory that _list_train_csv_files is
\* to list: the name is a date within [s, e] and the folder has a trains.csv.
Selected ==
    {i \in 1..Len(EntryNames) :
        /\ fnIn.dir[i] = "trains"
        /\ TryIsoDate(EntryNames[i]) # <<>>
        /\ fnIn.s <= TryIsoDate(EntryNames[i])[1]
        /\ TryIsoDate(EntryNames[i])[1] <= fnIn.e}

\* C26: _list_train_csv_files(s, e) lists exactly the trains.csv of the
\* folders whose name is a date within [s, e] and that hold one, in
\* ascending order of their dates, and answers 404 if and only if there is
\* none.
C26_PartitionsInDateOrder ==
    (fnIn.fn = "_list_train_csv_files" /\ fnOut.done) =>
        /\ fnOut.status = 404 <=> Selected = {}
        /\ {fnOut.files[k] : k \in 1..Len(fnOut.files)} = {EntryNames[i] : i \in Selected}
        /\ Len(fnOut.files) = Cardinality(Selected)
        /\ \A k \in 1..(Len(fnOut.files) - 1) :
              fromisoformat(fnOut.files[k]) < fromisoformat(fnOut.files[k + 1])

\* The earliest and the latest date of the call's folders.
Earliest == CHOOSE a \in fnIn.dates : \A b \in fnIn.dates : a <= b
Latest == CHOOSE a \in fnIn.dates : \A b \in fnIn.dates : b <= a

\* C27: _pick_precompute_range returns (m, M, not clamped) when the folders
\* span at most 366 days and else the 366 days ending at M (clamped); in both
\* cases start <= end = M and _validate_range accepts the range.
C27_PrecomputeRangeIsAccepted ==
    (fnIn.fn = "_pick_precompute_range" /\ fnOut.done) =>
        /\ IF (Latest - Earliest) + 1 <= 366
           THEN fnOut.start = Earliest /\ ~fnOut.clamped
           ELSE fnOut.start = Latest - 365 /\ fnOut.clamped
        /\ fnOut.start <= fnOut.end /\ fnOut.end = Latest
        /\ (fnOut.end - fnOut.start) + 1 <= 366
        /\ _validate_range(fnOut.start, fnOut.end, MAX_RANGE_DAYS) = 0

C27_Witness ==
    /\ fnIn.fn = "_pick_precompute_range" /\ fnOut.done
    /\ fnOut.clamped
    /\ Earliest = 0 /\ Latest = 366 /\ fnOut.start = 1

\* C28: two requests to the same aggregator over the same dataset that have
\* the same cache file get the same filtered table from _load_trains_df.
C28_SameKeySameTable ==
    (fnIn.fn = "two_requests" /\ fnOut.done /\ fnOut.first.key = fnOut.second.key) =>
        fnOut.first.df = fnOut.second.df

\* C23: in every state the lifecycle requests lead to, the index the next
\* call of _load_stations_index returns is built from the stations.csv that
\* is current (the empty index is returned when there is none).
C23_StationIndexNeverStale ==
    cur.st["stations.csv"] # <<>> =>
        _load_stations_index(cur, stationsCache).by_code = cur.st["stations.csv"][1].tag

\* After clear-archives, which does not reset the cache, the cache holds the
\* index of another stations file than the current one.
C23_Witness ==
    /\ last.op = "clear"
    /\ cur.st["stations.csv"] # <<>>
    /\ stationsCache.by_code # -1
    /\ stationsCache.by_code # cur.st["stations.csv"][1].tag

\* outputs/runtime exists under the current dataset.
RuntimeDirExists == cur.outputs # <<>> /\ cur.outputs[1].runtime

RECURSIVE SumCounts(_)
SumCounts(S) ==
    IF S = {} THEN 0
    ELSE LET g == CHOOSE x \in S : TRUE IN g.train_count + SumCounts(S \ {g})

\* The buckets day-train-count drew for the last request: the content of
\* the file it stored.
Buckets == (CHOOSE f \in RuntimeFiles(cur) : f.name = resp.body.filename).body

\* The distinct trips of the partition of date folder d of the dataset c,
\* over the rows none of whose flags is true.
TripsOfDay(c, d) ==
    LET t == TrainsCsv(c.days[d][1].tag, d)
    IN  {t.rows[i].train_hash : i \in {j \in 1..Len(t.rows) : KeptByClaim(t, t.rows[j])}} \ {""}

\* The dataset has a trains.csv for 2024-08-16 and 2024-08-17 and no other
\* date folder.
TwoConsecutiveDays(c) ==
    /\ c.days["2023-08-15"] = <<>>
    /\ c.days["2024-08-16"] # <<>> /\ c.days["2024-08-16"][1].trains
    /\ c.days["2024-08-17"] # <<>> /\ c.days["2024-08-17"][1].trains

\* C21: day-train-count over exactly the two days of a dataset of two
\* consecutive days, outputs/runtime being there to take the drawing, draws
\* two day buckets, and the counts of the operators of a day sum to the
\* number of distinct trips of that day.
C21_TwoDayBucketsSumToDayTotals ==
    (/\ resp.kind = "day_train_count" /\ resp.loaded
     /\ ~WriteRaises(last.pre.cur)
     /\ TwoConsecutiveDays(last.pre.cur)
     /\ resp.req.start_date = "2024-08-16" /\ resp.req.end_date = "2024-08-17"
     /\ resp.req.station_query = "") =>
        /\ resp.status = 200
        /\ {g.day : g \in Buckets} = {367, 368}
        /\ \A d \in {"2024-08-16", "2024-08-17"} :
              SumCounts({g \in Buckets : g.day = fromisoformat(d)})
                = Cardinality(TripsOfDay(last.pre.cur, d))


\* C30: every artifact the background task stores in the runtime cache was
\* computed from the day-partitions the current dataset holds, at the moment
\* of the write, for the range of the artifact, and that range is the
\* precompute_range the upload response reported.
C30_TaskStoresFromCurrentDataset ==
    (task.pc # "none" /\ task.stored # <<>>)
        => LET a == task.stored[1]
           IN  /\ a.tables = a.current
               /\ a.range = task.reported

====
